---- MODULE Spec2Model ----
(***************************************************************************)
(* State-machine model of the movie-platform REST backend: the login       *)
(* guard (per-email failure counter with lockout), session tokens and the  *)
(* auth middleware, the user store, and the ownership-scoped comment,      *)
(* rating and movie handlers.                                              *)
(*                                                                         *)
(* Every handler is an async function: it runs as a chain of              *)
(* continuations separated by its awaits.  A continuation runs to          *)
(* completion on the single JavaScript thread, so each action below is one *)
(* continuation together with the storage call it issues; continuations of *)
(* different requests interleave.                                          *)
(***************************************************************************)
EXTENDS Integers, Sequences, FiniteSets, TLC

VARIABLES
    now,            \* Date.now(), milliseconds
    users,          \* the User collection: id -> document or NoUser
    loginAttempts,  \* the in-memory map email -> {count, lockedUntil}
    issued,         \* every token the server has produced (jwt.sign, randomBytes)
    ratings,        \* the Rating collection: a set of documents
    comments,       \* the Comment collection: a set of documents
    movies,         \* the Movie collection: a set of documents
    nextId,         \* the next _id the store hands out, per collection
    pc,             \* per request slot: the continuation that runs next
    req,            \* per request slot: the handler's local variables
    resp            \* per request slot: the last response sent

vars == <<now, users, loginAttempts, issued, ratings, comments, movies,
          nextId, pc, req, resp>>

stores == <<users, ratings, comments, movies, nextId>>

(***************************************************************************)
(* Bounds and input domains.                                               *)
(***************************************************************************)
Slots == {"r1", "r2"}               \* requests that may be in flight together

MaxTicks == 4                       \* the clock advances at most this often
TickStep == 5 * 60 * 1000           \* one clock step: five minutes

UserIdSeq == <<"u1", "u2", "u3">>     \* the _ids new users get, in order
UserIds == { UserIdSeq[i] : i \in 1 .. Len(UserIdSeq) }
Emails == {"a@x", "b@x", "c@x"}
Passwords == {"Secret1!", "Other2!!"}
Salts == {"s1", "s2"}

NoUser == [none |-> "user"]
Null == "null"
NoRec == [none |-> "attempts"]
NoLock == 0                         \* lockedUntil: null (falsy, like 0)
NoExpiry == 0                       \* resetPasswordExpires: undefined (never $gt now)
NoToken == [none |-> "token"]
NoReq == [h |-> "idle"]
NoResp == [status |-> 0, cookie |-> NoToken, body |-> Null, req |-> NoReq]

(***************************************************************************)
(* Program constants.                                                      *)
(***************************************************************************)
MaxFailures == 5                    \* failures that lock the email
LockMs == 15 * 60 * 1000            \* the lockout, milliseconds
ResetTtlMs == 3600000                \* validity of a reset token: one hour
TokenTtlSec == 2 * 60 * 60          \* expiresIn: "2h", seconds

(***************************************************************************)
(* bcrypt.  hash(password, 10) draws a salt and returns a string that      *)
(* embeds the cost, the salt and the digest of salt and password; compare  *)
(* recomputes the hash with the salt the stored string carries.  The       *)
(* strings are tabulated for the passwords and salts of the model.         *)
(***************************************************************************)
\* a hash that stores the password as it came
BcryptHashPlain(password, salt) == password

BcryptHash(password, salt) ==
    CASE salt = "s1" /\ password = "Secret1!" -> "$2b$10$s1$dA"
      [] salt = "s2" /\ password = "Secret1!" -> "$2b$10$s2$dB"
      [] salt = "s1" /\ password = "Other2!!" -> "$2b$10$s1$dC"
      [] salt = "s2" /\ password = "Other2!!" -> "$2b$10$s2$dD"
      [] salt = "s1" /\ password = "weak" -> "$2b$10$s1$dE"
      [] salt = "s2" /\ password = "weak" -> "$2b$10$s2$dF"
      [] salt = "s1" /\ password = "Secret12" -> "$2b$10$s1$dG"
      [] salt = "s2" /\ password = "Secret12" -> "$2b$10$s2$dH"

BcryptCompare(password, hash) ==
    \E salt \in Salts : hash = BcryptHash(password, salt)

(***************************************************************************)
(* jsonwebtoken.  sign stamps exp = floor(now / 1000) + ttl and signs with *)
(* the secret; verify rejects a signature made with another key and a     *)
(* token whose exp is not in the future.                                   *)
(***************************************************************************)
JwtSign(userId, email, t) ==
    [userId |-> userId, email |-> email,
     exp |-> (t \div 1000) + TokenTtlSec, key |-> "JWT_SECRET"]

\* jwt.verify with ignoreExpiration
JwtVerifyNoExpiry(token, t) == token.key = "JWT_SECRET"

JwtVerify(token, t) ==
    /\ token.key = "JWT_SECRET"
    /\ (t \div 1000) < token.exp

(***************************************************************************)
(* The User collection.                                                    *)
(***************************************************************************)
UserIdsByEmail(us, email) ==
    { id \in UserIds : us[id] /= NoUser /\ us[id].email = email }

\* User.findOne({ email }): the id of a matching document, or NoUser
FindOneByEmail(us, email) ==
    IF UserIdsByEmail(us, email) = {}
    THEN NoUser
    ELSE LET id == CHOOSE i \in UserIdsByEmail(us, email) : TRUE
         IN  [id |-> id, email |-> us[id].email, password |-> us[id].password]

(***************************************************************************)
(* Responses.                                                              *)
(***************************************************************************)
\* a response: its status, the cookie it sets, the data of its body, and
\* the request it answers
Reply(status) == [status |-> status, cookie |-> NoToken, body |-> Null]
ReplyCookie(status, token) == [status |-> status, cookie |-> token, body |-> Null]
ReplyBody(status, body) == [status |-> status, cookie |-> NoToken, body |-> body]

FinishAs(s, r, q) ==
    /\ pc' = [pc EXCEPT ![s] = "idle"]
    /\ req' = [req EXCEPT ![s] = NoReq]
    /\ resp' = [resp EXCEPT ![s] =
          [status |-> r.status, cookie |-> r.cookie, body |-> r.body, req |-> q]]

Finish(s, r) == FinishAs(s, r, req[s])

(***************************************************************************)
(* login (POST /auth/login).                                               *)
(***************************************************************************)
\* lines 108-116: validate the body, then await User.findOne({ email })
LoginFindOne(s, email, password) ==
    /\ pc[s] = "idle"
    /\ IF email = "" \/ password = ""
       THEN FinishAs(s, Reply(400), [h |-> "login", email |-> email, password |-> password])
       ELSE /\ pc' = [pc EXCEPT ![s] = "login_found"]
            /\ req' = [req EXCEPT ![s] =
                          [h |-> "login", email |-> email, password |-> password,
                           user |-> FindOneByEmail(users, email)]]
            /\ resp' = [resp EXCEPT ![s] = NoResp]
    /\ UNCHANGED <<now, users, loginAttempts, issued, ratings, comments, movies, nextId>>

\* lines 121-123: the record is created on first use
EnsureAttempts(attempts, email) ==
    IF attempts[email] = NoRec
    THEN [attempts EXCEPT ![email] = [count |-> 0, lockedUntil |-> NoLock]]
    ELSE attempts

\* lines 126-127: lockedUntil is set and lies in the future
IsLocked(rec, t) ==
    /\ rec.lockedUntil /= NoLock
    /\ rec.lockedUntil > t

\* a variant that locks one failure late
RecordFailureLate(rec, t) ==
    LET n == rec.count + 1
    IN  [count |-> n,
         lockedUntil |-> IF n > MaxFailures THEN t + LockMs ELSE rec.lockedUntil]

\* a variant that starts counting afresh once a lockout has expired
RecordFailureExpired(rec, t) ==
    LET n == IF rec.lockedUntil /= NoLock /\ rec.lockedUntil <= t
             THEN 1 ELSE rec.count + 1
    IN  [count |-> n,
         lockedUntil |-> IF n >= MaxFailures THEN t + LockMs ELSE rec.lockedUntil]

\* a variant that stops counting at the fifth failure
RecordFailureCapped(rec, t) ==
    LET n == IF rec.count >= MaxFailures THEN rec.count ELSE rec.count + 1
    IN  [count |-> n,
         lockedUntil |-> IF n >= MaxFailures THEN t + LockMs ELSE rec.lockedUntil]

\* lines 139-142: one more failure; the fifth and every later one sets the lock
RecordFailure(rec, t) ==
    LET n == rec.count + 1
    IN  [count |-> n,
         lockedUntil |-> IF n >= MaxFailures THEN t + LockMs ELSE rec.lockedUntil]

\* a variant that forgets the reset
RecordSuccessKeep(rec) == rec

\* line 146: only the count is reset
RecordSuccess(rec) == [rec EXCEPT !.count = 0]

\* a variant that counts a rejected attempt as one more failure
LoginGuardCountsLocked(s) ==
    /\ pc[s] = "login_found"
    /\ IF req[s].user = NoUser
       THEN /\ Finish(s, Reply(401))
            /\ UNCHANGED loginAttempts
       ELSE LET attempts == EnsureAttempts(loginAttempts, req[s].email)
            IN  IF IsLocked(attempts[req[s].email], now)
                THEN /\ loginAttempts' = [attempts EXCEPT ![req[s].email] =
                                              RecordFailure(attempts[req[s].email], now)]
                     /\ Finish(s, Reply(423))
                ELSE /\ loginAttempts' = attempts
                     /\ pc' = [pc EXCEPT ![s] = "login_compare"]
                     /\ UNCHANGED <<req, resp>>
    /\ UNCHANGED <<now, users, issued, ratings, comments, movies, nextId>>

\* lines 117-137: after findOne resolves, up to the call of bcrypt.compare
LoginGuard(s) ==
    /\ pc[s] = "login_found"
    /\ IF req[s].user = NoUser
       THEN /\ Finish(s, Reply(401))
            /\ UNCHANGED loginAttempts
       ELSE /\ loginAttempts' = EnsureAttempts(loginAttempts, req[s].email)
            /\ IF IsLocked(loginAttempts'[req[s].email], now)
               THEN Finish(s, Reply(423))
               ELSE /\ pc' = [pc EXCEPT ![s] = "login_compare"]
                    /\ UNCHANGED <<req, resp>>
    /\ UNCHANGED <<now, users, issued, ratings, comments, movies, nextId>>

\* a variant with one failure count shared by all emails that have a record
LoginFinishShared(s) ==
    /\ pc[s] = "login_compare"
    /\ LET email == req[s].email
           rec == loginAttempts[email]
       IN  IF ~BcryptCompare(req[s].password, req[s].user.password)
           THEN /\ loginAttempts' = [e \in Emails |->
                                       IF loginAttempts[e] = NoRec THEN NoRec
                                       ELSE RecordFailure(loginAttempts[e], now)]
                /\ Finish(s, Reply(401))
                /\ UNCHANGED issued
           ELSE LET token == JwtSign(req[s].user.id, req[s].user.email, now)
                IN  /\ loginAttempts' = [loginAttempts EXCEPT ![email] = RecordSuccess(rec)]
                    /\ issued' = issued \cup {token}
                    /\ Finish(s, ReplyCookie(200, token))
    /\ UNCHANGED <<now, users, ratings, comments, movies, nextId>>

\* lines 137-161: after bcrypt.compare resolves
LoginFinish(s) ==
    /\ pc[s] = "login_compare"
    /\ LET email == req[s].email
           rec == loginAttempts[email]
       IN  IF ~BcryptCompare(req[s].password, req[s].user.password)
           THEN /\ loginAttempts' = [loginAttempts EXCEPT ![email] = RecordFailure(rec, now)]
                /\ Finish(s, Reply(401))
                /\ UNCHANGED issued
           ELSE LET token == JwtSign(req[s].user.id, req[s].user.email, now)
                IN  /\ loginAttempts' = [loginAttempts EXCEPT ![email] = RecordSuccess(rec)]
                    /\ issued' = issued \cup {token}
                    /\ Finish(s, ReplyCookie(200, token))
    /\ UNCHANGED <<now, users, ratings, comments, movies, nextId>>

(***************************************************************************)
(* The clock.                                                              *)
(***************************************************************************)
Tick ==
    /\ now < MaxTicks * TickStep
    /\ now' = now + TickStep
    /\ UNCHANGED <<users, loginAttempts, issued, ratings, comments, movies,
                   nextId, pc, req, resp>>

(***************************************************************************)
(* Initial states.  The process starts with an empty loginAttempts map and *)
(* no request in flight; the database it connects to holds the accounts    *)
(* registered before.                                                      *)
(***************************************************************************)
UserDoc(email, password, firstName) ==
    [email |-> email, password |-> password,
     firstName |-> firstName, lastName |-> "Doe", age |-> 25,
     resetPasswordToken |-> Null, resetPasswordExpires |-> NoExpiry]

TwoUsers ==
    [id \in UserIds |->
        IF id = "u1" THEN UserDoc("a@x", BcryptHash("Secret1!", "s1"), "Ann")
        ELSE IF id = "u2" THEN UserDoc("b@x", BcryptHash("Other2!!", "s2"), "Bob")
        ELSE NoUser]

OneUser == [TwoUsers EXCEPT !["u2"] = NoUser]

InitProcess ==
    /\ now = 0
    /\ loginAttempts = [e \in Emails |-> NoRec]
    /\ issued = {}
    /\ pc = [s \in Slots |-> "idle"]
    /\ req = [s \in Slots |-> NoReq]
    /\ resp = [s \in Slots |-> NoResp]

Collections == {"user", "rating", "comment", "movie"}

EmptyCollections ==
    /\ ratings = {}
    /\ comments = {}
    /\ movies = {}

\* the ids in use: `u` users were registered, `d` documents of each other
\* collection were created
UsedIds(u, d) == [c \in Collections |-> IF c = "user" THEN u + 1 ELSE d + 1]

(***************************************************************************)
(* Spec: the login guard.  Concurrent logins for a registered and an       *)
(* unregistered email, with right, wrong and missing passwords.            *)
(***************************************************************************)
LoginEmails == {"", "a@x", "c@x"}
LoginPasswords == {"", "Secret1!", "Other2!!"}

Init ==
    /\ InitProcess
    /\ users = OneUser
    /\ EmptyCollections
    /\ nextId = UsedIds(1, 0)

Next ==
    \/ \E s \in Slots, e \in LoginEmails, p \in LoginPasswords : LoginFindOne(s, e, p)
    \/ \E s \in Slots : LoginGuard(s)
    \/ \E s \in Slots : LoginFinish(s)
    \/ Tick

Spec == Init /\ [][Next]_vars

(***************************************************************************)
(* authMiddleware: the request continues only with a cookie token that     *)
(* jwt.verify accepts; the decoded payload becomes req.user.               *)
(***************************************************************************)
AuthMiddleware(token, t) ==
    IF token = NoToken THEN "missing"
    ELSE IF JwtVerify(token, t) THEN "ok"
    ELSE "invalid"

Decoded(token) == [userId |-> token.userId, email |-> token.email]

\* a token signed with a key other than JWT_SECRET
Forged(userId, email) ==
    [userId |-> userId, email |-> email, exp |-> TokenTtlSec, key |-> "other"]

\* the cookies a client can send: none, a token login issued, a forgery
SessionCookies == {NoToken} \cup issued
Cookies == SessionCookies \cup {Forged("u1", "a@x")}

(***************************************************************************)
(* Ratings.  A value v of the JSON body is modelled by the integer 2 * v,  *)
(* so that 2.5 is the integer 5 and the bounds 1 and 5 are 2 and 10.       *)
(***************************************************************************)
MinRating == 1
MaxRating == 5
MaxDocs == 2                        \* requests that may create are taken until
                                    \* this many ids of a collection are used
NoDoc == [none |-> "doc"]

MinId(docs) == CHOOSE d \in docs : \A e \in docs : d.id <= e.id

\* Model.findById(id)
\* the cast of a route parameter to an _id: a string that is no ObjectId
\* (modelled by 0; the _ids of the model are 1, 2, ...) makes findById and
\* findByIdAndDelete reject with a CastError, which the handler catches
MalformedId == 0
IsObjectId(id) == id >= 1

FindById(docs, id) ==
    IF \E d \in docs : d.id = id
    THEN CHOOSE d \in docs : d.id = id
    ELSE NoDoc

\* a lookup by the movie alone
FindRatingOfMovie(rs, userId, moviePexelsId) ==
    LET found == { r \in rs : r.moviePexelsId = moviePexelsId }
    IN  IF found = {} THEN NoDoc ELSE MinId(found)

\* Rating.findOne({ userId, moviePexelsId }): the first match in _id order
FindRating(rs, userId, moviePexelsId) ==
    LET found == { r \in rs : r.userId = userId /\ r.moviePexelsId = moviePexelsId }
    IN  IF found = {} THEN NoDoc ELSE MinId(found)

\* a save whose update addresses the documents of the movie instead of _id
SaveFieldByMovie(docs, doc, field, value) ==
    [ok |-> TRUE,
     docs |-> { IF d.moviePexelsId = doc.moviePexelsId THEN [d EXCEPT ![field] = value] ELSE d :
                   d \in docs }]

\* doc.save() after one field was assigned: nothing is sent when the field
\* kept its value; the update fails when the document is gone
SaveField(docs, doc, field, value) ==
    IF doc[field] = value THEN [ok |-> TRUE, docs |-> docs]
    ELSE IF \E d \in docs : d.id = doc.id
    THEN [ok |-> TRUE,
          docs |-> { IF d.id = doc.id THEN [d EXCEPT ![field] = value] ELSE d : d \in docs }]
    ELSE [ok |-> FALSE, docs |-> docs]

\* createOrUpdateRating, up to await Rating.findOne
RatingFindOne(s, token, moviePexelsId, value) ==
    /\ pc[s] = "idle"
    /\ nextId["rating"] <= MaxDocs
    /\ LET q == [h |-> "createOrUpdateRating", token |-> token,
                 moviePexelsId |-> moviePexelsId, value |-> value]
       IN  IF AuthMiddleware(token, now) /= "ok"
           THEN FinishAs(s, Reply(401), q)
           ELSE IF value = 0 \/ moviePexelsId = ""
           THEN FinishAs(s, Reply(400), q)
           ELSE IF value < 2 * MinRating \/ value > 2 * MaxRating
           THEN FinishAs(s, Reply(400), q)
           ELSE /\ pc' = [pc EXCEPT ![s] = "rating_found"]
                /\ req' = [req EXCEPT ![s] =
                      [h |-> "createOrUpdateRating", token |-> token,
                       moviePexelsId |-> moviePexelsId, value |-> value,
                       user |-> Decoded(token),
                       existing |-> FindRating(ratings, token.userId, moviePexelsId)]]
                /\ resp' = [resp EXCEPT ![s] = NoResp]
    /\ UNCHANGED <<now, users, loginAttempts, issued, ratings, comments, movies, nextId>>

\* a variant that never takes the update path
RatingWriteAlwaysCreates(s) ==
    /\ pc[s] = "rating_found"
    /\ ratings' = ratings \cup
          {[id |-> nextId["rating"], userId |-> req[s].user.userId,
            moviePexelsId |-> req[s].moviePexelsId, value |-> req[s].value]}
    /\ nextId' = [nextId EXCEPT !["rating"] = @ + 1]
    /\ Finish(s, Reply(201))
    /\ UNCHANGED <<now, users, loginAttempts, issued, comments, movies>>

\* createOrUpdateRating, after findOne resolves: save the found document
\* with the new value, or create one
RatingWrite(s) ==
    /\ pc[s] = "rating_found"
    /\ IF req[s].existing /= NoDoc
       THEN LET saved == SaveField(ratings, req[s].existing, "value", req[s].value)
            IN  /\ ratings' = saved.docs
                /\ Finish(s, Reply(IF saved.ok THEN 200 ELSE 500))
                /\ UNCHANGED nextId
       ELSE /\ ratings' = ratings \cup
                  {[id |-> nextId["rating"], userId |-> req[s].user.userId,
                    moviePexelsId |-> req[s].moviePexelsId, value |-> req[s].value]}
            /\ nextId' = [nextId EXCEPT !["rating"] = @ + 1]
            /\ Finish(s, Reply(201))
    /\ UNCHANGED <<now, users, loginAttempts, issued, comments, movies>>

\* deleteRating, up to await Rating.findById
RatingFindById(s, token, id) ==
    /\ pc[s] = "idle"
    /\ LET q == [h |-> "deleteRating", token |-> token, id |-> id]
       IN  IF AuthMiddleware(token, now) /= "ok"
           THEN FinishAs(s, Reply(401), q)
           ELSE IF ~IsObjectId(id)
           THEN FinishAs(s, Reply(500), q)
           ELSE /\ pc' = [pc EXCEPT ![s] = "rating_delete"]
                /\ req' = [req EXCEPT ![s] =
                      [h |-> "deleteRating", token |-> token, id |-> id,
                       user |-> Decoded(token), doc |-> FindById(ratings, id)]]
                /\ resp' = [resp EXCEPT ![s] = NoResp]
    /\ UNCHANGED <<now, users, loginAttempts, issued, ratings, comments, movies, nextId>>

\* a variant of the owner check that lets every identity through
NotOwnerNever(doc, user) == FALSE

\* doc.userId.toString() !== req.user.userId
NotOwner(doc, user) == doc.userId /= user.userId

\* deleteRating, after findById resolves
RatingDelete(s) ==
    /\ pc[s] = "rating_delete"
    /\ IF req[s].doc = NoDoc
       THEN Finish(s, Reply(404)) /\ UNCHANGED ratings
       ELSE IF NotOwner(req[s].doc, req[s].user)
       THEN Finish(s, Reply(403)) /\ UNCHANGED ratings
       ELSE /\ ratings' = { r \in ratings : r.id /= req[s].doc.id }
            /\ Finish(s, Reply(200))
    /\ UNCHANGED <<now, users, loginAttempts, issued, comments, movies, nextId>>

(***************************************************************************)
(* Comments.                                                               *)
(***************************************************************************)
\* createComment: one storage call, Comment.create
CreateComment(s, token, moviePexelsId, description) ==
    /\ pc[s] = "idle"
    /\ nextId["comment"] <= MaxDocs
    /\ LET q == [h |-> "createComment", token |-> token,
                 moviePexelsId |-> moviePexelsId, description |-> description]
       IN  IF AuthMiddleware(token, now) /= "ok"
           THEN FinishAs(s, Reply(401), q) /\ UNCHANGED <<comments, nextId>>
           ELSE IF description = "" \/ moviePexelsId = ""
           THEN FinishAs(s, Reply(400), q) /\ UNCHANGED <<comments, nextId>>
           ELSE LET newComment ==
                        [id |-> nextId["comment"], userId |-> token.userId,
                         moviePexelsId |-> moviePexelsId, description |-> description,
                         createdAt |-> now]
                IN  /\ comments' = comments \cup {newComment}
                    /\ nextId' = [nextId EXCEPT !["comment"] = @ + 1]
                    /\ FinishAs(s, ReplyBody(201, newComment), q)
    /\ UNCHANGED <<now, users, loginAttempts, issued, ratings, movies>>

\* deleteComment and updateComment, up to await Comment.findById
CommentFindById(s, h, token, id, description) ==
    /\ pc[s] = "idle"
    /\ LET q == [h |-> h, token |-> token, id |-> id, description |-> description]
       IN  IF AuthMiddleware(token, now) /= "ok"
           THEN FinishAs(s, Reply(401), q)
           ELSE IF ~IsObjectId(id)
           THEN FinishAs(s, Reply(500), q)
           ELSE /\ pc' = [pc EXCEPT ![s] = h]
                /\ req' = [req EXCEPT ![s] =
                      [h |-> h, token |-> token, id |-> id, description |-> description,
                       user |-> Decoded(token), doc |-> FindById(comments, id)]]
                /\ resp' = [resp EXCEPT ![s] = NoResp]
    /\ UNCHANGED <<now, users, loginAttempts, issued, ratings, comments, movies, nextId>>

DeleteCommentFind(s, token, id) == CommentFindById(s, "deleteComment", token, id, "")

UpdateCommentFind(s, token, id, description) ==
    CommentFindById(s, "updateComment", token, id, description)

\* deleteComment, after findById resolves
DeleteComment(s) ==
    /\ pc[s] = "deleteComment"
    /\ IF req[s].doc = NoDoc
       THEN Finish(s, Reply(404)) /\ UNCHANGED comments
       ELSE IF NotOwner(req[s].doc, req[s].user)
       THEN Finish(s, Reply(403)) /\ UNCHANGED comments
       ELSE /\ comments' = { c \in comments : c.id /= req[s].doc.id }
            /\ Finish(s, Reply(200))
    /\ UNCHANGED <<now, users, loginAttempts, issued, ratings, movies, nextId>>

\* updateComment, after findById resolves; the schema requires a
\* non-empty description, so save() rejects an empty one
UpdateComment(s) ==
    /\ pc[s] = "updateComment"
    /\ IF req[s].doc = NoDoc
       THEN Finish(s, Reply(404)) /\ UNCHANGED comments
       ELSE IF NotOwner(req[s].doc, req[s].user)
       THEN Finish(s, Reply(403)) /\ UNCHANGED comments
       ELSE IF req[s].description = ""
       THEN Finish(s, Reply(500)) /\ UNCHANGED comments
       ELSE LET saved == SaveField(comments, req[s].doc, "description", req[s].description)
            IN  /\ comments' = saved.docs
                /\ Finish(s, Reply(IF saved.ok THEN 200 ELSE 500))
    /\ UNCHANGED <<now, users, loginAttempts, issued, ratings, movies, nextId>>

(***************************************************************************)
(* Initial states with two registered users who logged in before.          *)
(***************************************************************************)
TokenU1 == JwtSign("u1", "a@x", 0)
TokenU2 == JwtSign("u2", "b@x", 0)

InitLoggedIn ==
    /\ now = 0
    /\ users = TwoUsers
    /\ loginAttempts = [e \in Emails |-> NoRec]
    /\ issued = {TokenU1, TokenU2}
    /\ pc = [s \in Slots |-> "idle"]
    /\ req = [s \in Slots |-> NoReq]
    /\ resp = [s \in Slots |-> NoResp]
    /\ EmptyCollections
    /\ nextId = UsedIds(2, 0)

MovieRefs == {"m1"}
RatingValues == {0, 2, 5, 10, 12}       \* 0, 1, 2.5, 5 and 6 stars
StarValues == {2, 10}                   \* 1 and 5 stars
Descriptions == {"", "good", "bad"}
DocIds == 1 .. (MaxDocs + 1)

\* no other request is in flight
AllIdle == \A s \in Slots : pc[s] = "idle"

(***************************************************************************)
(* SpecRating: concurrent createOrUpdateRating and deleteRating requests.  *)
(***************************************************************************)
NextRating ==
    \/ \E s \in Slots, t \in SessionCookies, m \in MovieRefs, v \in StarValues :
          RatingFindOne(s, t, m, v)
    \/ \E s \in Slots : RatingWrite(s)
    \/ \E s \in Slots, t \in SessionCookies, id \in DocIds : RatingFindById(s, t, id)
    \/ \E s \in Slots : RatingDelete(s)

SpecRating == InitLoggedIn /\ [][NextRating]_vars

(***************************************************************************)
(* SpecRatingSeq: createOrUpdateRating requests one after the other.       *)
(***************************************************************************)
NextRatingSeq ==
    \/ \E s \in Slots, t \in Cookies, m \in MovieRefs, v \in RatingValues :
          AllIdle /\ RatingFindOne(s, t, m, v)
    \/ \E s \in Slots : RatingWrite(s)

SpecRatingSeq == InitLoggedIn /\ [][NextRatingSeq]_vars

(***************************************************************************)
(* SpecOwner: concurrent requests that change or delete comments and       *)
(* delete ratings, sent by their owners and by others.  Both users have    *)
(* commented on and rated the movie before.                                *)
(***************************************************************************)
CommentDoc(id, userId, description) ==
    [id |-> id, userId |-> userId, moviePexelsId |-> "m1",
     description |-> description, createdAt |-> 0]

RatingDoc(id, userId, value) ==
    [id |-> id, userId |-> userId, moviePexelsId |-> "m1", value |-> value]

InitOwner ==
    /\ now = 0
    /\ users = TwoUsers
    /\ loginAttempts = [e \in Emails |-> NoRec]
    /\ issued = {TokenU1, TokenU2}
    /\ pc = [s \in Slots |-> "idle"]
    /\ req = [s \in Slots |-> NoReq]
    /\ resp = [s \in Slots |-> NoResp]
    /\ comments = {CommentDoc(1, "u1", "good"), CommentDoc(2, "u2", "good")}
    /\ ratings = {RatingDoc(1, "u1", 10), RatingDoc(2, "u2", 2)}
    /\ movies = {}
    /\ nextId = UsedIds(2, 2)

NextOwner ==
    \/ \E s \in Slots, t \in SessionCookies, id \in DocIds :
          DeleteCommentFind(s, t, id)
    \/ \E s \in Slots : DeleteComment(s)
    \/ \E s \in Slots, t \in SessionCookies, id \in DocIds :
          UpdateCommentFind(s, t, id, "bad")
    \/ \E s \in Slots : UpdateComment(s)
    \/ \E s \in Slots, t \in SessionCookies, id \in DocIds : RatingFindById(s, t, id)
    \/ \E s \in Slots : RatingDelete(s)

SpecOwner == InitOwner /\ [][NextOwner]_vars

(***************************************************************************)
(* signup (POST /auth/register) and the profile handlers.                  *)
(***************************************************************************)
MinPasswordLen == 8

\* what the password regex looks at, tabulated for the model's passwords
PasswordShape(password) ==
    CASE password = "Secret1!" -> [len |-> 8, lower |-> TRUE, upper |-> TRUE, special |-> TRUE]
      [] password = "Other2!!" -> [len |-> 8, lower |-> TRUE, upper |-> TRUE, special |-> TRUE]
      [] password = "weak" -> [len |-> 4, lower |-> TRUE, upper |-> FALSE, special |-> FALSE]
      [] password = "secret1!" -> [len |-> 8, lower |-> TRUE, upper |-> FALSE, special |-> TRUE]
      [] password = "SECRET1!" -> [len |-> 8, lower |-> FALSE, upper |-> TRUE, special |-> TRUE]
      [] password = "Secret12" -> [len |-> 8, lower |-> TRUE, upper |-> TRUE, special |-> FALSE]
      [] password = "Sec1!" -> [len |-> 5, lower |-> TRUE, upper |-> TRUE, special |-> TRUE]
      [] password = "" -> [len |-> 0, lower |-> FALSE, upper |-> FALSE, special |-> FALSE]

\* a password test without the lookahead for a special character
PasswordRegexTestNoSpecial(password) ==
    LET shape == PasswordShape(password)
    IN  shape.lower /\ shape.upper /\ shape.len >= MinPasswordLen

\* /^(?=.*[a-z])(?=.*[A-Z])(?=.*[\W_]).{8,}$/.test(password)
PasswordRegexTest(password) ==
    LET shape == PasswordShape(password)
    IN  shape.lower /\ shape.upper /\ shape.special /\ shape.len >= MinPasswordLen

\* a variant of the collection without the unique index on email
EmailIndexOff(us, id, email) == TRUE

\* userSchema email: { unique: true }: the index accepts the email for
\* document id when no other document holds it
EmailIndexAllows(us, id, email) ==
    \A other \in UserIds \ {id} : us[other] = NoUser \/ us[other].email /= email

InFlight(h) == Cardinality({ s \in Slots : req[s].h = h })

\* signup, up to await User.findOne({ email })
SignupFindOne(s, firstName, lastName, age, email, password) ==
    /\ pc[s] = "idle"
    /\ nextId["user"] + InFlight("signup") <= Len(UserIdSeq)
    /\ LET q == [h |-> "signup", firstName |-> firstName, lastName |-> lastName,
                 age |-> age, email |-> email, password |-> password]
       IN  IF firstName = "" \/ lastName = "" \/ age = 0 \/ email = "" \/ password = ""
           THEN FinishAs(s, Reply(400), q)
           ELSE IF ~PasswordRegexTest(password)
           THEN FinishAs(s, Reply(400), q)
           ELSE /\ pc' = [pc EXCEPT ![s] = "signup_found"]
                /\ req' = [req EXCEPT ![s] =
                      [h |-> "signup", firstName |-> firstName, lastName |-> lastName,
                       age |-> age, email |-> email, password |-> password,
                       existingUser |-> FindOneByEmail(users, email)]]
                /\ resp' = [resp EXCEPT ![s] = NoResp]
    /\ UNCHANGED <<now, users, loginAttempts, issued, ratings, comments, movies, nextId>>

\* a signup that signs a token for the new user and sends it as cookie
SignupSaveWithToken(s, salt) ==
    /\ pc[s] = "signup_found"
    /\ IF req[s].existingUser /= NoUser
       THEN Finish(s, Reply(409)) /\ UNCHANGED <<users, nextId, issued>>
       ELSE LET id == UserIdSeq[nextId["user"]]
                token == JwtSign(id, req[s].email, now)
            IN  IF \A other \in UserIds \ {id} :
                       users[other] = NoUser \/ users[other].email /= req[s].email
                THEN /\ users' = [users EXCEPT ![id] =
                           [email |-> req[s].email,
                            password |-> BcryptHash(req[s].password, salt),
                            firstName |-> req[s].firstName, lastName |-> req[s].lastName,
                            age |-> req[s].age,
                            resetPasswordToken |-> Null, resetPasswordExpires |-> NoExpiry]]
                     /\ nextId' = [nextId EXCEPT !["user"] = @ + 1]
                     /\ issued' = issued \cup {token}
                     /\ Finish(s, ReplyCookie(201, token))
                ELSE Finish(s, Reply(500)) /\ UNCHANGED <<users, nextId, issued>>
    /\ UNCHANGED <<now, loginAttempts, ratings, comments, movies>>

\* signup, after findOne resolves: 409, or bcrypt.hash and user.save();
\* a duplicate-key error of the save goes to next(error)
SignupSave(s, salt) ==
    /\ pc[s] = "signup_found"
    /\ IF req[s].existingUser /= NoUser
       THEN Finish(s, Reply(409)) /\ UNCHANGED <<users, nextId>>
       ELSE LET id == UserIdSeq[nextId["user"]]
            IN  IF EmailIndexAllows(users, id, req[s].email)
                THEN /\ users' = [users EXCEPT ![id] =
                           [email |-> req[s].email,
                            password |-> BcryptHash(req[s].password, salt),
                            firstName |-> req[s].firstName, lastName |-> req[s].lastName,
                            age |-> req[s].age,
                            resetPasswordToken |-> Null, resetPasswordExpires |-> NoExpiry]]
                     /\ nextId' = [nextId EXCEPT !["user"] = @ + 1]
                     /\ Finish(s, ReplyBody(201, [userId |-> id]))
                ELSE Finish(s, Reply(500)) /\ UNCHANGED <<users, nextId>>
    /\ UNCHANGED <<now, loginAttempts, issued, ratings, comments, movies>>

\* the fields getProfile and updateProfile select
PublicUser(id, doc) ==
    [id |-> id, email |-> doc.email, firstName |-> doc.firstName,
     lastName |-> doc.lastName, age |-> doc.age]

\* getProfile: User.findById(req.user.userId)
GetProfile(s, token) ==
    /\ pc[s] = "idle"
    /\ LET q == [h |-> "getProfile", token |-> token]
       IN  IF AuthMiddleware(token, now) /= "ok"
           THEN FinishAs(s, Reply(401), q)
           ELSE IF users[token.userId] = NoUser
           THEN FinishAs(s, Reply(404), q)
           ELSE FinishAs(s, ReplyBody(200, PublicUser(token.userId, users[token.userId])), q)
    /\ UNCHANGED <<now, users, loginAttempts, issued, ratings, comments, movies, nextId>>

\* an updateProfile that addresses the record by the email of the body
UpdateProfileOfEmailOwner(s, token, firstName, lastName, age, email) ==
    /\ pc[s] = "idle"
    /\ LET q == [h |-> "updateProfile", token |-> token, firstName |-> firstName,
                 lastName |-> lastName, age |-> age, email |-> email]
           found == FindOneByEmail(users, email)
       IN  IF AuthMiddleware(token, now) /= "ok"
           THEN FinishAs(s, Reply(401), q) /\ UNCHANGED users
           ELSE IF found = NoUser
           THEN FinishAs(s, Reply(404), q) /\ UNCHANGED users
           ELSE /\ users' = [users EXCEPT ![found.id] =
                      [@ EXCEPT !.firstName = firstName, !.lastName = lastName,
                                !.age = age]]
                /\ FinishAs(s, ReplyBody(200, PublicUser(found.id, users'[found.id])), q)
    /\ UNCHANGED <<now, loginAttempts, issued, ratings, comments, movies, nextId>>

\* updateProfile: User.findByIdAndUpdate(req.user.userId, {...})
UpdateProfile(s, token, firstName, lastName, age, email) ==
    /\ pc[s] = "idle"
    /\ LET q == [h |-> "updateProfile", token |-> token, firstName |-> firstName,
                 lastName |-> lastName, age |-> age, email |-> email]
           id == token.userId
       IN  IF AuthMiddleware(token, now) /= "ok"
           THEN FinishAs(s, Reply(401), q) /\ UNCHANGED users
           ELSE IF firstName = "" \/ lastName = "" \/ age = 0 \/ email = ""
           THEN FinishAs(s, Reply(400), q) /\ UNCHANGED users
           ELSE IF users[id] = NoUser
           THEN FinishAs(s, Reply(404), q) /\ UNCHANGED users
           ELSE IF ~EmailIndexAllows(users, id, email)
           THEN FinishAs(s, Reply(500), q) /\ UNCHANGED users
           ELSE /\ users' = [users EXCEPT ![id] =
                      [@ EXCEPT !.firstName = firstName, !.lastName = lastName,
                                !.age = age, !.email = email]]
                /\ FinishAs(s, ReplyBody(200, PublicUser(id, users'[id])), q)
    /\ UNCHANGED <<now, loginAttempts, issued, ratings, comments, movies, nextId>>

\* res.clearCookie("token")
ClearedCookie == [none |-> "cleared"]

\* deleteProfile, up to await User.findById
DeleteProfileFind(s, token, password) ==
    /\ pc[s] = "idle"
    /\ LET q == [h |-> "deleteProfile", token |-> token, password |-> password]
       IN  IF AuthMiddleware(token, now) /= "ok"
           THEN FinishAs(s, Reply(401), q)
           ELSE IF password = ""
           THEN FinishAs(s, Reply(400), q)
           ELSE /\ pc' = [pc EXCEPT ![s] = "deleteProfile"]
                /\ req' = [req EXCEPT ![s] =
                      [h |-> "deleteProfile", token |-> token, password |-> password,
                       user |-> Decoded(token), doc |-> users[token.userId]]]
                /\ resp' = [resp EXCEPT ![s] = NoResp]
    /\ UNCHANGED <<now, users, loginAttempts, issued, ratings, comments, movies, nextId>>

\* a deleteProfile that skips bcrypt.compare
DeleteProfileNoCompare(s) ==
    /\ pc[s] = "deleteProfile"
    /\ IF req[s].doc = NoUser
       THEN Finish(s, Reply(404)) /\ UNCHANGED users
       ELSE /\ users' = [users EXCEPT ![req[s].user.userId] = NoUser]
            /\ Finish(s, ReplyCookie(200, ClearedCookie))
    /\ UNCHANGED <<now, loginAttempts, issued, ratings, comments, movies, nextId>>

\* deleteProfile, after findById resolves: bcrypt.compare, then
\* User.findByIdAndDelete and clearCookie
DeleteProfile(s) ==
    /\ pc[s] = "deleteProfile"
    /\ IF req[s].doc = NoUser
       THEN Finish(s, Reply(404)) /\ UNCHANGED users
       ELSE IF ~BcryptCompare(req[s].password, req[s].doc.password)
       THEN Finish(s, Reply(401)) /\ UNCHANGED users
       ELSE /\ users' = [users EXCEPT ![req[s].user.userId] = NoUser]
            /\ Finish(s, ReplyCookie(200, ClearedCookie))
    /\ UNCHANGED <<now, loginAttempts, issued, ratings, comments, movies, nextId>>

\* changePassword, up to await User.findById
ChangePasswordFind(s, token, currentPassword, newPassword) ==
    /\ pc[s] = "idle"
    /\ LET q == [h |-> "changePassword", token |-> token,
                 currentPassword |-> currentPassword, newPassword |-> newPassword]
       IN  IF AuthMiddleware(token, now) /= "ok"
           THEN FinishAs(s, Reply(401), q)
           ELSE /\ pc' = [pc EXCEPT ![s] = "changePassword"]
                /\ req' = [req EXCEPT ![s] =
                      [h |-> "changePassword", token |-> token,
                       currentPassword |-> currentPassword, newPassword |-> newPassword,
                       user |-> Decoded(token), doc |-> users[token.userId]]]
                /\ resp' = [resp EXCEPT ![s] = NoResp]
    /\ UNCHANGED <<now, users, loginAttempts, issued, ratings, comments, movies, nextId>>

\* a changePassword that skips bcrypt.compare
ChangePasswordNoCompare(s, salt) ==
    /\ pc[s] = "changePassword"
    /\ IF req[s].doc = NoUser
       THEN Finish(s, Reply(404)) /\ UNCHANGED users
       ELSE IF users[req[s].user.userId] = NoUser
       THEN Finish(s, Reply(500)) /\ UNCHANGED users
       ELSE /\ users' = [users EXCEPT ![req[s].user.userId].password =
                             BcryptHash(req[s].newPassword, salt)]
            /\ Finish(s, Reply(200))
    /\ UNCHANGED <<now, loginAttempts, issued, ratings, comments, movies, nextId>>

\* changePassword, after findById resolves: bcrypt.compare, bcrypt.hash and
\* user.save(), which fails when the document was deleted meanwhile
ChangePassword(s, salt) ==
    /\ pc[s] = "changePassword"
    /\ IF req[s].doc = NoUser
       THEN Finish(s, Reply(404)) /\ UNCHANGED users
       ELSE IF ~BcryptCompare(req[s].currentPassword, req[s].doc.password)
       THEN Finish(s, Reply(401)) /\ UNCHANGED users
       ELSE IF users[req[s].user.userId] = NoUser
       THEN Finish(s, Reply(500)) /\ UNCHANGED users
       ELSE /\ users' = [users EXCEPT ![req[s].user.userId].password =
                             BcryptHash(req[s].newPassword, salt)]
            /\ Finish(s, Reply(200))
    /\ UNCHANGED <<now, loginAttempts, issued, ratings, comments, movies, nextId>>

\* session, behind authMiddleware, which answers a request without a valid
\* token itself; the handler verifies the cookie once more
Session(s, token) ==
    /\ pc[s] = "idle"
    /\ LET q == [h |-> "session", token |-> token]
       IN  IF AuthMiddleware(token, now) = "missing"
           THEN FinishAs(s, ReplyBody(401, [message |-> "Access denied, token missing"]), q)
           ELSE IF AuthMiddleware(token, now) = "invalid"
           THEN FinishAs(s, ReplyBody(401, [message |-> "Invalid or expired token"]), q)
           ELSE IF token = NoToken
           THEN FinishAs(s, ReplyBody(401, [loggedIn |-> FALSE]), q)
           ELSE IF JwtVerify(token, now)
           THEN FinishAs(s, ReplyBody(200, [loggedIn |-> TRUE, user |-> Decoded(token)]), q)
           ELSE FinishAs(s, ReplyBody(401, [loggedIn |-> FALSE]), q)
    /\ UNCHANGED <<now, users, loginAttempts, issued, ratings, comments, movies, nextId>>

(***************************************************************************)
(* Read handlers of comments and ratings, and the movie handlers.          *)
(***************************************************************************)
\* the document that .sort({ field: -1 }) puts first; equal keys keep the
\* order of their _ids
First(docs, field) ==
    CHOOSE d \in docs :
        \A e \in docs : \/ d[field] > e[field]
                         \/ (d[field] = e[field] /\ d.id <= e.id)

RECURSIVE SortDesc(_, _)
SortDesc(docs, field) ==
    IF docs = {} THEN <<>>
    ELSE LET d == First(docs, field)
         IN  <<d>> \o SortDesc(docs \ {d}, field)

RECURSIVE SumValues(_)
SumValues(docs) ==
    IF docs = {} THEN 0
    ELSE LET d == CHOOSE x \in docs : TRUE
         IN  d.value + SumValues(docs \ {d})

\* getCommentsByMovie: find, populate("userId"), sort, then split by owner;
\* reading userId._id of a comment whose user is gone throws
GetCommentsByMovie(s, token, moviePexelsId) ==
    /\ pc[s] = "idle"
    /\ LET q == [h |-> "getCommentsByMovie", token |-> token, moviePexelsId |-> moviePexelsId]
           found == SortDesc({ c \in comments : c.moviePexelsId = moviePexelsId }, "createdAt")
           Mine(c) == c.userId = token.userId
           Others(c) == c.userId /= token.userId
       IN  IF AuthMiddleware(token, now) /= "ok"
           THEN FinishAs(s, Reply(401), q)
           ELSE IF \E i \in 1 .. Len(found) : users[found[i].userId] = NoUser
           THEN FinishAs(s, Reply(500), q)
           ELSE FinishAs(s, ReplyBody(200, [userComments |-> SelectSeq(found, Mine),
                                            otherComments |-> SelectSeq(found, Others)]), q)
    /\ UNCHANGED <<now, users, loginAttempts, issued, ratings, comments, movies, nextId>>

\* getCommentsByUser
GetCommentsByUser(s, token, userId) ==
    /\ pc[s] = "idle"
    /\ LET q == [h |-> "getCommentsByUser", token |-> token, userId |-> userId]
       IN  IF AuthMiddleware(token, now) /= "ok"
           THEN FinishAs(s, Reply(401), q)
           ELSE FinishAs(s, ReplyBody(200,
                    SortDesc({ c \in comments : c.userId = userId }, "createdAt")), q)
    /\ UNCHANGED <<now, users, loginAttempts, issued, ratings, comments, movies, nextId>>

\* a number of the response: num / den stars
Number(num, den) == [num |-> num, den |-> den]

\* getAverageRatingByMovie, up to the second await: Rating.aggregate
RatingAggregate(s, token, moviePexelsId) ==
    /\ pc[s] = "idle"
    /\ LET q == [h |-> "getAverageRatingByMovie", token |-> token,
                 moviePexelsId |-> moviePexelsId]
           matched == { r \in ratings : r.moviePexelsId = moviePexelsId }
       IN  IF AuthMiddleware(token, now) /= "ok"
           THEN FinishAs(s, Reply(401), q)
           ELSE IF matched = {}
           THEN FinishAs(s, ReplyBody(200, [averageRating |-> Number(0, 1), totalRatings |-> 0,
                                            userRating |-> Number(0, 1)]), q)
           ELSE /\ pc' = [pc EXCEPT ![s] = "rating_average"]
                /\ req' = [req EXCEPT ![s] =
                      [h |-> "getAverageRatingByMovie", token |-> token,
                       moviePexelsId |-> moviePexelsId, user |-> Decoded(token),
                       averageRating |-> Number(SumValues(matched), 2 * Cardinality(matched)),
                       totalRatings |-> Cardinality(matched)]]
                /\ resp' = [resp EXCEPT ![s] = NoResp]
    /\ UNCHANGED <<now, users, loginAttempts, issued, ratings, comments, movies, nextId>>

\* the response of the controller that reads no rating of the caller
RatingAverageNoUserRating(s) ==
    /\ pc[s] = "rating_average"
    /\ Finish(s, ReplyBody(200,
                [averageRating |-> req[s].averageRating,
                 totalRatings |-> req[s].totalRatings,
                 userRating |-> Number(0, 1)]))
    /\ UNCHANGED <<now, users, loginAttempts, issued, ratings, comments, movies, nextId>>

\* getAverageRatingByMovie, the caller's own rating and the response
RatingAverage(s) ==
    /\ pc[s] = "rating_average"
    /\ LET userRating == FindRating(ratings, req[s].user.userId, req[s].moviePexelsId)
       IN  Finish(s, ReplyBody(200,
                [averageRating |-> req[s].averageRating,
                 totalRatings |-> req[s].totalRatings,
                 userRating |-> IF userRating = NoDoc THEN Number(0, 1)
                                ELSE Number(userRating.value, 2)]))
    /\ UNCHANGED <<now, users, loginAttempts, issued, ratings, comments, movies, nextId>>

\* getRatingsByUser: newest _id first
GetRatingsByUser(s, token, userId) ==
    /\ pc[s] = "idle"
    /\ LET q == [h |-> "getRatingsByUser", token |-> token, userId |-> userId]
       IN  IF AuthMiddleware(token, now) /= "ok"
           THEN FinishAs(s, Reply(401), q)
           ELSE FinishAs(s, ReplyBody(200,
                    SortDesc({ r \in ratings : r.userId = userId }, "id")), q)
    /\ UNCHANGED <<now, users, loginAttempts, issued, ratings, comments, movies, nextId>>

\* listMovies: the caller's movies, newest first
ListMovies(s, token) ==
    /\ pc[s] = "idle"
    /\ LET q == [h |-> "listMovies", token |-> token]
       IN  IF AuthMiddleware(token, now) /= "ok"
           THEN FinishAs(s, Reply(401), q)
           ELSE FinishAs(s, ReplyBody(200,
                    SortDesc({ m \in movies : m.userId = token.userId }, "createdAt")), q)
    /\ UNCHANGED <<now, users, loginAttempts, issued, ratings, comments, movies, nextId>>

\* getMovie
GetMovie(s, token, id) ==
    /\ pc[s] = "idle"
    /\ LET q == [h |-> "getMovie", token |-> token, id |-> id]
       IN  IF AuthMiddleware(token, now) /= "ok"
           THEN FinishAs(s, Reply(401), q)
           ELSE IF ~IsObjectId(id)
           THEN FinishAs(s, ReplyBody(500, [exists |-> FALSE]), q)
           ELSE FinishAs(s, ReplyBody(200, [exists |-> FindById(movies, id) /= NoDoc,
                                            movie |-> FindById(movies, id)]), q)
    /\ UNCHANGED <<now, users, loginAttempts, issued, ratings, comments, movies, nextId>>

\* createMovie: the owner is read from req.user._id, a field the token
\* payload { userId, email } does not have
CreateMovie(s, token, title, pexelUser, pexelsId, miniatureUrl) ==
    /\ pc[s] = "idle"
    /\ nextId["movie"] <= MaxDocs
    /\ LET q == [h |-> "createMovie", token |-> token, title |-> title,
                 pexelUser |-> pexelUser, pexelsId |-> pexelsId,
                 miniatureUrl |-> miniatureUrl]
       IN  IF AuthMiddleware(token, now) /= "ok"
           THEN FinishAs(s, Reply(401), q) /\ UNCHANGED <<movies, nextId>>
           ELSE IF title = "" \/ pexelUser = "" \/ pexelsId = "" \/ miniatureUrl = ""
           THEN FinishAs(s, Reply(400), q) /\ UNCHANGED <<movies, nextId>>
           ELSE IF "_id" \notin DOMAIN Decoded(token)
           THEN FinishAs(s, Reply(401), q) /\ UNCHANGED <<movies, nextId>>
           ELSE /\ movies' = movies \cup
                      {[id |-> nextId["movie"], title |-> title, pexelUser |-> pexelUser,
                        pexelsId |-> pexelsId, miniatureUrl |-> miniatureUrl,
                        userId |-> Decoded(token)["_id"], createdAt |-> now]}
                /\ nextId' = [nextId EXCEPT !["movie"] = @ + 1]
                /\ FinishAs(s, Reply(201), q)
    /\ UNCHANGED <<now, users, loginAttempts, issued, ratings, comments>>

\* deleteMovie: Movie.findByIdAndDelete(req.params.id)
DeleteMovie(s, token, id) ==
    /\ pc[s] = "idle"
    /\ LET q == [h |-> "deleteMovie", token |-> token, id |-> id]
       IN  IF AuthMiddleware(token, now) /= "ok"
           THEN FinishAs(s, Reply(401), q) /\ UNCHANGED movies
           ELSE IF ~IsObjectId(id)
           THEN FinishAs(s, Reply(500), q) /\ UNCHANGED movies
           ELSE IF FindById(movies, id) = NoDoc
           THEN FinishAs(s, Reply(404), q) /\ UNCHANGED movies
           ELSE /\ movies' = { m \in movies : m.id /= id }
                /\ FinishAs(s, Reply(204), q)
    /\ UNCHANGED <<now, users, loginAttempts, issued, ratings, comments, nextId>>

(***************************************************************************)
(* SpecUsers: concurrent register and updateProfile requests.  One user    *)
(* is registered and logged in.                                            *)
(***************************************************************************)
SignupPasswords == {"Secret1!", "weak", "secret1!", "SECRET1!", "Secret12", "Sec1!"}

InitUsers ==
    /\ now = 0
    /\ loginAttempts = [e \in Emails |-> NoRec]
    /\ issued = {TokenU1}
    /\ pc = [s \in Slots |-> "idle"]
    /\ req = [s \in Slots |-> NoReq]
    /\ resp = [s \in Slots |-> NoResp]
    /\ users = OneUser
    /\ EmptyCollections
    /\ nextId = UsedIds(1, 0)

NextUsers ==
    \/ \E s \in Slots, f \in {"", "Cy"}, e \in {"a@x", "b@x"}, p \in SignupPasswords :
          SignupFindOne(s, f, "Doe", 30, e, p)
    \/ \E s \in Slots, salt \in Salts : SignupSave(s, salt)
    \/ \E s \in Slots, t \in {NoToken, TokenU1}, e \in {"a@x", "b@x", "c@x"} :
          UpdateProfile(s, t, "Ann", "Doe", 26, e)

SpecUsers == InitUsers /\ [][NextUsers]_vars

(***************************************************************************)
(* Properties of the login guard (checked under Spec).                     *)
(***************************************************************************)
(* forgotPassword and resetPassword.  crypto.randomBytes(32) is modelled   *)
(* as a draw of a token that was never produced before.                    *)
(***************************************************************************)
ResetTokenSeq == <<"t1", "t2", "t3">>
ResetTokens == { ResetTokenSeq[i] : i \in 1 .. Len(ResetTokenSeq) }

\* a generator that may repeat a token it has produced
RandomBytesRepeating == ResetTokens

\* cryptoModule.randomBytes(32).toString("hex")
RandomBytes == ResetTokens \ issued

\* forgotPassword, up to await User.findOne({ email })
ForgotPasswordFindOne(s, email) ==
    /\ pc[s] = "idle"
    /\ pc' = [pc EXCEPT ![s] = "forgot_found"]
    /\ req' = [req EXCEPT ![s] =
          [h |-> "forgotPassword", email |-> email, user |-> FindOneByEmail(users, email)]]
    /\ resp' = [resp EXCEPT ![s] = NoResp]
    /\ UNCHANGED <<now, users, loginAttempts, issued, ratings, comments, movies, nextId>>

\* the two fields forgotPassword assigns before user.save()
ForgotFieldsTokenOnly(doc, resetToken, t) ==
    [doc EXCEPT !.resetPasswordToken = resetToken]

ForgotFields(doc, resetToken, t) ==
    [doc EXCEPT !.resetPasswordToken = resetToken,
                !.resetPasswordExpires = t + ResetTtlMs]

\* a forgotPassword that sends the token the user holds again while it is
\* not expired
ForgotPasswordSaveKeeping(s) ==
    /\ pc[s] = "forgot_found"
    /\ IF req[s].user = NoUser
       THEN Finish(s, Reply(404)) /\ UNCHANGED <<users, issued>>
       ELSE LET id == req[s].user.id
            IN  /\ users[id] /= NoUser
                /\ \E resetToken \in
                        (IF users[id].resetPasswordExpires > now
                         THEN {users[id].resetPasswordToken} ELSE RandomBytes) :
                      /\ issued' = issued \cup {resetToken}
                      /\ users' = [users EXCEPT ![id] = ForgotFields(@, resetToken, now)]
                      /\ pc' = [pc EXCEPT ![s] = "forgot_saved"]
                      /\ req' = [req EXCEPT ![s] =
                            [h |-> "forgotPassword", email |-> req[s].email,
                             user |-> req[s].user, resetToken |-> resetToken]]
                      /\ UNCHANGED resp
    /\ UNCHANGED <<now, loginAttempts, ratings, comments, movies, nextId>>

\* forgotPassword, after findOne resolves: 404, or draw the token, assign
\* the two fields and user.save(), which fails when the user is gone
ForgotPasswordSave(s) ==
    /\ pc[s] = "forgot_found"
    /\ IF req[s].user = NoUser
       THEN Finish(s, Reply(404)) /\ UNCHANGED <<users, issued>>
       ELSE \E resetToken \in RandomBytes :
              LET id == req[s].user.id
              IN  /\ issued' = issued \cup {resetToken}
                  /\ IF users[id] = NoUser
                     THEN /\ FinishAs(s, Reply(500),
                                [h |-> "forgotPassword", email |-> req[s].email,
                                 user |-> req[s].user, resetToken |-> resetToken])
                          /\ UNCHANGED users
                     ELSE /\ users' = [users EXCEPT ![id] = ForgotFields(@, resetToken, now)]
                          /\ pc' = [pc EXCEPT ![s] = "forgot_saved"]
                          /\ req' = [req EXCEPT ![s] =
                                [h |-> "forgotPassword", email |-> req[s].email,
                                 user |-> req[s].user, resetToken |-> resetToken]]
                          /\ UNCHANGED resp
    /\ UNCHANGED <<now, loginAttempts, ratings, comments, movies, nextId>>

\* forgotPassword, after await sendEmail: the mail went out, or it threw
ForgotPasswordSent(s, delivered) ==
    /\ pc[s] = "forgot_saved"
    /\ Finish(s, Reply(IF delivered THEN 200 ELSE 500))
    /\ UNCHANGED <<now, users, loginAttempts, issued, ratings, comments, movies, nextId>>

\* User.findOne({ resetPasswordToken: token,
\*                resetPasswordExpires: { $gt: Date.now() } })
FindByResetTokenAnyTime(us, token, t) ==
    { id \in UserIds : us[id] /= NoUser /\ us[id].resetPasswordToken = token }

FindByResetToken(us, token, t) ==
    { id \in UserIds : /\ us[id] /= NoUser
                       /\ us[id].resetPasswordToken = token
                       /\ us[id].resetPasswordExpires > t }

\* resetPassword, up to await User.findOne
ResetPasswordFindOne(s, token, password) ==
    /\ pc[s] = "idle"
    /\ LET q == [h |-> "resetPassword", token |-> token, password |-> password]
           found == FindByResetToken(users, token, now)
       IN  IF found = {}
           THEN FinishAs(s, Reply(400), q)
           ELSE \E id \in found :
                  /\ pc' = [pc EXCEPT ![s] = "reset_found"]
                  /\ req' = [req EXCEPT ![s] =
                        [h |-> "resetPassword", token |-> token, password |-> password,
                         doc |-> id]]
                  /\ resp' = [resp EXCEPT ![s] = NoResp]
    /\ UNCHANGED <<now, users, loginAttempts, issued, ratings, comments, movies, nextId>>

\* the three fields resetPassword assigns before user.save()
ResetFieldsKeepToken(doc, hashedPassword) ==
    [doc EXCEPT !.password = hashedPassword]

ResetFields(doc, hashedPassword) ==
    [doc EXCEPT !.password = hashedPassword,
                !.resetPasswordToken = Null,
                !.resetPasswordExpires = NoExpiry]

\* resetPassword, after findOne resolves: bcrypt.hash, assign, user.save()
ResetPasswordSave(s, salt) ==
    /\ pc[s] = "reset_found"
    /\ IF users[req[s].doc] = NoUser
       THEN Finish(s, Reply(500)) /\ UNCHANGED users
       ELSE /\ users' = [users EXCEPT ![req[s].doc] =
                             ResetFields(@, BcryptHash(req[s].password, salt))]
            /\ Finish(s, Reply(200))
    /\ UNCHANGED <<now, loginAttempts, issued, ratings, comments, movies, nextId>>

\* the clock, in steps of half an hour
ResetStep == 30 * 60 * 1000

TickHalfHour ==
    /\ now < MaxTicks * ResetStep
    /\ now' = now + ResetStep
    /\ UNCHANGED <<users, loginAttempts, issued, ratings, comments, movies,
                   nextId, pc, req, resp>>

(***************************************************************************)
(* SpecReset: concurrent forgotPassword and resetPassword requests for a   *)
(* registered and an unregistered email while the clock passes the hour.   *)
(* SpecResetSeq: the same requests one after the other.                    *)
(***************************************************************************)
InitReset ==
    /\ InitProcess
    /\ users = TwoUsers
    /\ EmptyCollections
    /\ nextId = UsedIds(2, 0)

PresentedTokens == {"t1", "t2", "tX"}

NextReset ==
    \/ \E s \in Slots, e \in {"a@x", "c@x"} : ForgotPasswordFindOne(s, e)
    \/ \E s \in Slots : ForgotPasswordSave(s)
    \/ \E s \in Slots, delivered \in BOOLEAN : ForgotPasswordSent(s, delivered)
    \/ \E s \in Slots, t \in PresentedTokens : ResetPasswordFindOne(s, t, "Other2!!")
    \/ \E s \in Slots : ResetPasswordSave(s, "s1")
    \/ TickHalfHour

SpecReset == InitReset /\ [][NextReset]_vars

NextResetSeq ==
    \/ \E s \in Slots, e \in {"a@x", "c@x"} : AllIdle /\ ForgotPasswordFindOne(s, e)
    \/ \E s \in Slots : ForgotPasswordSave(s)
    \/ \E s \in Slots, delivered \in BOOLEAN : ForgotPasswordSent(s, delivered)
    \/ \E s \in Slots, t \in PresentedTokens :
          AllIdle /\ ResetPasswordFindOne(s, t, "Other2!!")
    \/ \E s \in Slots : ResetPasswordSave(s, "s1")
    \/ TickHalfHour

SpecResetSeq == InitReset /\ [][NextResetSeq]_vars

(***************************************************************************)
(* logout (POST /auth/logout), a route without authMiddleware.             *)
(* SpecSession: a browser logs in and out again and again while the clock  *)
(* passes two hours; after each logout whoever kept the token the browser  *)
(* held presents it to the session check and to getProfile.                *)
(***************************************************************************)
\* a logout that also forgets the token on the server
LogoutRevoking(s, token) ==
    /\ pc[s] = "idle"
    /\ issued' = issued \ {token}
    /\ FinishAs(s, ReplyCookie(200, ClearedCookie), [h |-> "logout", token |-> token])
    /\ UNCHANGED <<now, users, loginAttempts, ratings, comments, movies, nextId>>

\* logout: res.clearCookie("token", ...) and 200; `token` is the cookie
\* the request came with, which the handler does not read
Logout(s, token) ==
    /\ pc[s] = "idle"
    /\ FinishAs(s, ReplyCookie(200, ClearedCookie), [h |-> "logout", token |-> token])
    /\ UNCHANGED <<now, users, loginAttempts, issued, ratings, comments, movies, nextId>>

Client == "r1"
Holder == "r2"

LoggedOut(s) == resp[s].req.h = "logout" /\ resp[s].status = 200

NextSession ==
    \/ \E p \in Passwords : LoginFindOne(Client, "a@x", p)
    \/ LoginGuard(Client)
    \/ LoginFinish(Client)
    \/ \E t \in issued : Logout(Client, t)
    \/ LoggedOut(Client) /\ Session(Holder, resp[Client].req.token)
    \/ LoggedOut(Client) /\ GetProfile(Holder, resp[Client].req.token)
    \/ TickHalfHour

SpecSession == Init /\ [][NextSession]_vars

(***************************************************************************)
(* SpecProtected: every route behind authMiddleware, requested one after   *)
(* the other without a cookie, with a forged token and with a token that   *)
(* login issued ten minutes short of two hours before the first request,   *)
(* while the clock advances past its expiry.                               *)
(***************************************************************************)
TokenOld == JwtSign("u1", "a@x", 2 * TickStep - TokenTtlSec * 1000)

ProtectedCookies == {NoToken, Forged("u1", "a@x"), TokenOld}

MovieDoc(id, userId) ==
    [id |-> id, title |-> "film", pexelUser |-> "pex", pexelsId |-> "m1",
     miniatureUrl |-> "url", userId |-> userId, createdAt |-> 0]

InitProtected ==
    /\ now = 0
    /\ users = TwoUsers
    /\ loginAttempts = [e \in Emails |-> NoRec]
    /\ issued = {TokenOld}
    /\ pc = [s \in Slots |-> "idle"]
    /\ req = [s \in Slots |-> NoReq]
    /\ resp = [s \in Slots |-> NoResp]
    /\ comments = {CommentDoc(1, "u1", "good")}
    /\ ratings = {RatingDoc(1, "u1", 10)}
    /\ movies = {MovieDoc(1, "u1")}
    /\ nextId = UsedIds(2, 1)

NextProtected ==
    \/ \E t \in ProtectedCookies : GetProfile(Client, t)
    \/ \E t \in ProtectedCookies : UpdateProfile(Client, t, "Ann", "Doe", 26, "c@x")
    \/ \E t \in ProtectedCookies : DeleteProfileFind(Client, t, "Secret1!")
    \/ DeleteProfile(Client)
    \/ \E t \in ProtectedCookies : ChangePasswordFind(Client, t, "Secret1!", "Other2!!")
    \/ ChangePassword(Client, "s1")
    \/ \E t \in ProtectedCookies : Session(Client, t)
    \/ \E t \in ProtectedCookies : CreateComment(Client, t, "m1", "good")
    \/ \E t \in ProtectedCookies : GetCommentsByMovie(Client, t, "m1")
    \/ \E t \in ProtectedCookies : GetCommentsByUser(Client, t, "u1")
    \/ \E t \in ProtectedCookies : DeleteCommentFind(Client, t, 1)
    \/ DeleteComment(Client)
    \/ \E t \in ProtectedCookies : UpdateCommentFind(Client, t, 1, "bad")
    \/ UpdateComment(Client)
    \/ \E t \in ProtectedCookies : RatingFindOne(Client, t, "m1", 2)
    \/ RatingWrite(Client)
    \/ \E t \in ProtectedCookies : RatingAggregate(Client, t, "m1")
    \/ RatingAverage(Client)
    \/ \E t \in ProtectedCookies : GetRatingsByUser(Client, t, "u1")
    \/ \E t \in ProtectedCookies : RatingFindById(Client, t, 1)
    \/ RatingDelete(Client)
    \/ \E t \in ProtectedCookies : ListMovies(Client, t)
    \/ \E t \in ProtectedCookies : GetMovie(Client, t, 1)
    \/ \E t \in ProtectedCookies : CreateMovie(Client, t, "film", "pex", "m1", "url")
    \/ \E t \in ProtectedCookies : DeleteMovie(Client, t, 1)
    \/ Tick

SpecProtected == InitProtected /\ [][NextProtected]_vars

(***************************************************************************)
(***************************************************************************)
(* SpecDelete: concurrent delete requests of both users for comments,      *)
(* ratings and movies, by the id of a document of the first user, by an id *)
(* no document has, and by a string that is no ObjectId.                   *)
(***************************************************************************)
InitDelete ==
    /\ now = 0
    /\ users = TwoUsers
    /\ loginAttempts = [e \in Emails |-> NoRec]
    /\ issued = {TokenU1, TokenU2}
    /\ pc = [s \in Slots |-> "idle"]
    /\ req = [s \in Slots |-> NoReq]
    /\ resp = [s \in Slots |-> NoResp]
    /\ comments = {CommentDoc(1, "u1", "good"), CommentDoc(2, "u2", "good")}
    /\ ratings = {RatingDoc(1, "u1", 10), RatingDoc(2, "u2", 2)}
    /\ movies = {MovieDoc(1, "u1"), MovieDoc(2, "u2")}
    /\ nextId = UsedIds(2, 2)

DeleteIds == {MalformedId, 1, MaxDocs + 1}

NextDelete ==
    \/ \E s \in Slots, t \in issued, id \in DeleteIds : DeleteCommentFind(s, t, id)
    \/ \E s \in Slots : DeleteComment(s)
    \/ \E s \in Slots, t \in issued, id \in DeleteIds : RatingFindById(s, t, id)
    \/ \E s \in Slots : RatingDelete(s)
    \/ \E s \in Slots, t \in issued, id \in DeleteIds : DeleteMovie(s, t, id)

SpecDelete == InitDelete /\ [][NextDelete]_vars

(***************************************************************************)
(* SpecProfile: both users read, update and delete their profiles          *)
(* concurrently, deleting with no password, the own and the other's.       *)
(***************************************************************************)
NextProfile ==
    \/ \E s \in Slots, t \in issued : GetProfile(s, t)
    \/ \E s \in Slots, t \in issued, e \in {"b@x", "c@x"} :
          UpdateProfile(s, t, "Ann", "Doe", 26, e)
    \/ \E s \in Slots, t \in issued, p \in {""} \cup Passwords : DeleteProfileFind(s, t, p)
    \/ \E s \in Slots : DeleteProfile(s)

SpecProfile == InitLoggedIn /\ [][NextProfile]_vars

(***************************************************************************)
(* SpecSignup: a new user registers and logs in, while requests for the    *)
(* profile arrive without a cookie, with a forged one and with every       *)
(* token the server has signed.                                            *)
(***************************************************************************)
NextSignup ==
    \/ \E s \in Slots, p \in Passwords : SignupFindOne(s, "Bob", "Doe", 30, "b@x", p)
    \/ \E s \in Slots, salt \in Salts : SignupSave(s, salt)
    \/ \E s \in Slots, p \in Passwords : LoginFindOne(s, "b@x", p)
    \/ \E s \in Slots : LoginGuard(s)
    \/ \E s \in Slots : LoginFinish(s)
    \/ \E s \in Slots, t \in Cookies \cup {Forged("u2", "b@x")} : GetProfile(s, t)

SpecSignup == Init /\ [][NextSignup]_vars

(***************************************************************************)
(* SpecAverage: requests for the average rating of a movie, concurrent     *)
(* with deletions of ratings.  Three users are registered and logged in;   *)
(* each of them has rated movie m1 with 3, 4 or 5 stars or not at all, and *)
(* the first one may have rated movie m2 with 1 star.                      *)
(***************************************************************************)
ThreeUsers == [TwoUsers EXCEPT !["u3"] = UserDoc("c@x", BcryptHash("Secret1!", "s2"), "Cy")]
TokenU3 == JwtSign("u3", "c@x", 0)
AverageRefs == {"m1", "m2"}
AverageValues == {0, 6, 8, 10}      \* no rating, 3, 4 and 5 stars
AverageIds == 1 .. 4

RatedBy(value, other) ==
    { [id |-> i, userId |-> UserIdSeq[i], moviePexelsId |-> "m1", value |-> value[UserIdSeq[i]]] :
          i \in { j \in 1 .. Len(UserIdSeq) : value[UserIdSeq[j]] /= 0 } }
    \cup (IF other THEN {[id |-> 4, userId |-> "u1", moviePexelsId |-> "m2", value |-> 2]}
          ELSE {})

InitAverage ==
    /\ now = 0
    /\ users = ThreeUsers
    /\ loginAttempts = [e \in Emails |-> NoRec]
    /\ issued = {TokenU1, TokenU2, TokenU3}
    /\ pc = [s \in Slots |-> "idle"]
    /\ req = [s \in Slots |-> NoReq]
    /\ resp = [s \in Slots |-> NoResp]
    /\ \E value \in [UserIds -> AverageValues], other \in BOOLEAN :
          ratings = RatedBy(value, other)
    /\ comments = {}
    /\ movies = {}
    /\ nextId = [UsedIds(3, 0) EXCEPT !["rating"] = 5]

NextAverage ==
    \/ \E s \in Slots, t \in {NoToken, TokenU1, TokenU3}, m \in AverageRefs :
          RatingAggregate(s, t, m)
    \/ \E s \in Slots : RatingAverage(s)
    \/ \E id \in AverageIds : RatingFindById(Holder, TokenU1, id)
    \/ RatingDelete(Holder)

SpecAverage == InitAverage /\ [][NextAverage]_vars

(***************************************************************************)
(* SpecComments: the two users comment on two movies at different times    *)
(* and list the comments of a movie, while the second user may delete the  *)
(* own profile.                                                            *)
(***************************************************************************)
NextComments ==
    \/ \E t \in {TokenU1, TokenU2}, m \in AverageRefs : CreateComment(Holder, t, m, "good")
    \/ \E t \in {NoToken, TokenU1, TokenU2}, m \in AverageRefs :
          GetCommentsByMovie(Client, t, m)
    \/ DeleteProfileFind(Holder, TokenU2, "Other2!!")
    \/ DeleteProfile(Holder)
    \/ Tick

SpecComments == InitLoggedIn /\ [][NextComments]_vars

(***************************************************************************)
(* SpecPassword: the first user changes the password, with the right and   *)
(* with wrong current passwords, while logins for that user's email run.   *)
(***************************************************************************)
CurrentPasswords == {"Secret1!", "Other2!!", "weak"}
NewPasswords == {"Other2!!", "weak"}

NextPassword ==
    \/ \E t \in {NoToken, TokenU1}, c \in CurrentPasswords, n \in NewPasswords :
          ChangePasswordFind(Client, t, c, n)
    \/ \E salt \in Salts : ChangePassword(Client, salt)
    \/ \E p \in CurrentPasswords : LoginFindOne(Holder, "a@x", p)
    \/ LoginGuard(Holder)
    \/ LoginFinish(Holder)

SpecPassword == InitLoggedIn /\ [][NextPassword]_vars

(***************************************************************************)
(* SpecIsolation: logins for the emails of two registered users, each      *)
(* email from its own client, concurrently and over time.  The client of   *)
(* the first email only sends a wrong password; the client of the second   *)
(* sends the right and a wrong one.                                         *)
(***************************************************************************)
ClientEmail == [s \in Slots |-> IF s = Client THEN "a@x" ELSE "b@x"]
ClientPasswords == [s \in Slots |-> IF s = Client THEN {"Other2!!"} ELSE Passwords]

NextIsolation ==
    \/ \E s \in Slots : \E p \in ClientPasswords[s] : LoginFindOne(s, ClientEmail[s], p)
    \/ \E s \in Slots : LoginGuard(s)
    \/ \E s \in Slots : LoginFinish(s)
    \/ Tick

SpecIsolation == InitReset /\ [][NextIsolation]_vars

\* slot s runs the continuation `from` in this step
Runs(s, from) == pc[s] = from /\ pc'[s] /= from

\* the password of a request does not match the account of its email
WrongPassword(q) ==
    \/ FindOneByEmail(users, q.email) = NoUser
    \/ ~BcryptCompare(q.password, FindOneByEmail(users, q.email).password)

LoginAnswer(s) == resp[s].req.h = "login" /\ resp[s].status \notin {0, 400}

\* C1: the failure that brings the count of an email to five (or beyond)
\* sets its lockout expiry to that instant plus 15 minutes, the expiry is
\* never cleared or moved back, and every login attempt that reaches the
\* lock check before the expiry ends there with 423, sets no cookie, issues
\* no token and never reaches the password comparison.
C1_LockedForFifteenMinutes ==
    [][\A s \in Slots :
        /\ (Runs(s, "login_compare") /\ resp'[s].status = 401
              /\ loginAttempts'[req[s].email].count >= MaxFailures)
           => loginAttempts'[req[s].email].lockedUntil = now + LockMs
        /\ \A e \in Emails :
              loginAttempts[e] /= NoRec
              => /\ loginAttempts'[e] /= NoRec
                 /\ loginAttempts'[e].lockedUntil >= loginAttempts[e].lockedUntil
        /\ (Runs(s, "login_found") /\ loginAttempts[req[s].email] /= NoRec
              /\ loginAttempts[req[s].email].count >= MaxFailures
              /\ loginAttempts[req[s].email].lockedUntil > now)
           => /\ pc'[s] = "idle"
              /\ resp'[s].status = 423
              /\ resp'[s].cookie = NoToken
              /\ issued' = issued
      ]_vars

\* C1 witness: a login with the right password was answered 423 inside the
\* lockout window that five failures opened.
C1_Witness ==
    \E s \in Slots :
        /\ LoginAnswer(s) /\ resp[s].status = 423
        /\ ~WrongPassword(resp[s].req)
        /\ loginAttempts[resp[s].req.email].count = MaxFailures
        /\ loginAttempts[resp[s].req.email].lockedUntil > now

\* C2: a login whose password comparison succeeds is answered 200; the
\* step that answers 200 leaves the failure count of the email at 0 and
\* sets as cookie a token signed for that user, valid at that instant.
C2_SuccessResetsCount ==
    [][\A s \in Slots :
        Runs(s, "login_compare")
        => /\ BcryptCompare(req[s].password, req[s].user.password)
              <=> resp'[s].status = 200
           /\ resp'[s].status = 200
              => /\ loginAttempts'[req[s].email].count = 0
                 /\ resp'[s].cookie = JwtSign(req[s].user.id, req[s].email, now)
                 /\ resp'[s].cookie \in issued'
                 /\ JwtVerify(resp'[s].cookie, now)
      ]_vars

\* C2 witness: a login answered 200 for an email that had been locked
\* before (its count had reached five), and the count is 0.
C2_Witness ==
    \E s \in Slots :
        /\ LoginAnswer(s) /\ resp[s].status = 200
        /\ resp[s].cookie \in issued
        /\ loginAttempts[resp[s].req.email].lockedUntil /= NoLock
        /\ loginAttempts[resp[s].req.email].count = 0

\* C3: a login attempt that reaches the lock check while the lockout
\* expiry of its email lies in the future leaves the whole attempts map
\* unchanged and ends without a password comparison.
C3_LockedAttemptLeavesRecord ==
    [][\A s \in Slots :
        (Runs(s, "login_found") /\ loginAttempts[req[s].email] /= NoRec
          /\ loginAttempts[req[s].email].lockedUntil > now)
        => /\ loginAttempts' = loginAttempts
           /\ pc'[s] /= "login_compare"
      ]_vars

\* C3 witness: an attempt was answered 423 after the clock moved, and the
\* record still holds the count and the expiry the fifth failure set.
C3_Witness ==
    \E s \in Slots :
        /\ LoginAnswer(s) /\ resp[s].status = 423
        /\ now > 0
        /\ loginAttempts[resp[s].req.email] = [count |-> MaxFailures, lockedUntil |-> LockMs]

\* C4: the clock never changes the attempts map; an attempt that reaches
\* the lock check after the expiry goes on to the password comparison with
\* the record as stored; a failed comparison adds one to the stored count;
\* and a count drops only to 0 and only in a step that answers a login 200.
C4_ExpiryKeepsCount ==
    [][/\ now' /= now => loginAttempts' = loginAttempts
       /\ \A s \in Slots :
            /\ (Runs(s, "login_found") /\ loginAttempts[req[s].email] /= NoRec
                  /\ loginAttempts[req[s].email].lockedUntil <= now)
               => /\ pc'[s] = "login_compare"
                  /\ loginAttempts' = loginAttempts
            /\ (Runs(s, "login_compare") /\ resp'[s].status = 401)
               => loginAttempts'[req[s].email].count
                    = loginAttempts[req[s].email].count + 1
       /\ \A e \in Emails :
            (loginAttempts[e] /= NoRec /\ loginAttempts'[e].count < loginAttempts[e].count)
            => /\ loginAttempts'[e].count = 0
               /\ \E s \in Slots : /\ Runs(s, "login_compare")
                                    /\ req[s].email = e
                                    /\ resp'[s].status = 200
      ]_vars

\* C4 witness: after the first lockout expired a further failure was
\* counted on top of the stored five and set a later expiry.
C4_Witness ==
    \E e \in Emails :
        /\ loginAttempts[e] /= NoRec
        /\ loginAttempts[e].count > MaxFailures
        /\ loginAttempts[e].lockedUntil >= 2 * LockMs

\* C5: a login for an email without a user record is answered 401, and a
\* wrong-password login gets the same answer whether or not its email has
\* a user record (so no two answer sequences can differ).
C5_ResponsesHideExistence ==
    /\ \A s \in Slots :
          (LoginAnswer(s) /\ FindOneByEmail(users, resp[s].req.email) = NoUser)
          => resp[s].status = 401
    /\ \A s1, s2 \in Slots :
          (/\ LoginAnswer(s1) /\ WrongPassword(resp[s1].req)
           /\ LoginAnswer(s2) /\ WrongPassword(resp[s2].req)
           /\ FindOneByEmail(users, resp[s1].req.email) /= NoUser
           /\ FindOneByEmail(users, resp[s2].req.email) = NoUser)
          => resp[s1].status = resp[s2].status

\* the part of C5 the code keeps: an unknown email is always answered 401
C5_UnknownEmailIs401 ==
    \A s \in Slots :
        (LoginAnswer(s) /\ FindOneByEmail(users, resp[s].req.email) = NoUser)
        => resp[s].status = 401 /\ resp[s].cookie = NoToken

(***************************************************************************)
(* Properties of the rating and comment handlers.                          *)
(***************************************************************************)
RatingsOf(rs, userId, moviePexelsId) ==
    { r \in rs : r.userId = userId /\ r.moviePexelsId = moviePexelsId }

\* C6: at most one Rating document exists per (user, movie) pair, in every
\* state that concurrent createOrUpdateRating requests can reach.
C6_OneRatingPerPair ==
    \A r1, r2 \in ratings :
        (r1.userId = r2.userId /\ r1.moviePexelsId = r2.moviePexelsId) => r1 = r2

\* C7: when createOrUpdateRating requests run one after the other, every
\* request that passes validation is answered 200 or 201 and leaves exactly
\* one Rating document for its (user, movie) pair, holding the value it
\* submitted; no pair ever has two documents.
C7_SequentialUpsert ==
    [][\A s \in Slots :
        Runs(s, "rating_found")
        => /\ resp'[s].status \in {200, 201}
           /\ \E r \in ratings' :
                 /\ RatingsOf(ratings', req[s].user.userId, req[s].moviePexelsId) = {r}
                 /\ r.value = req[s].value
           /\ \A r1, r2 \in ratings' :
                 (r1.userId = r2.userId /\ r1.moviePexelsId = r2.moviePexelsId) => r1 = r2
      ]_vars

\* C7 witness: a second call for the pair was answered 200 and the single
\* document of the pair holds its value, while the other user has a
\* document of their own.
C7_Witness ==
    \E s \in Slots :
        /\ resp[s].req.h = "createOrUpdateRating" /\ resp[s].status = 200
        /\ resp[s].req.existing.value /= resp[s].req.value
        /\ \E r \in ratings :
              /\ RatingsOf(ratings, resp[s].req.user.userId, resp[s].req.moviePexelsId) = {r}
              /\ r.value = resp[s].req.value
        /\ Cardinality(ratings) = 2

\* C8: a comment is removed or changed, and a rating is removed, only by a
\* request whose session identity is the document's userId; a delete or
\* update request of another identity that found the document is answered
\* 403 and changes no collection.
C8_OnlyOwnerMutates ==
    [][/\ \A c \in comments :
            c \notin comments'
            => \E s \in Slots :
                 /\ Runs(s, "deleteComment") \/ Runs(s, "updateComment")
                 /\ req[s].doc.id = c.id
                 /\ req[s].user = Decoded(req[s].token)
                 /\ req[s].user.userId = c.userId
       /\ \A r \in ratings :
            r \notin ratings'
            => \E s \in Slots :
                 /\ Runs(s, "rating_delete")
                 /\ req[s].doc.id = r.id
                 /\ req[s].user = Decoded(req[s].token)
                 /\ req[s].user.userId = r.userId
       /\ \A s \in Slots :
            (/\ Runs(s, "deleteComment") \/ Runs(s, "updateComment") \/ Runs(s, "rating_delete")
             /\ req[s].doc /= NoDoc
             /\ req[s].doc.userId /= req[s].user.userId)
            => /\ resp'[s].status = 403
               /\ comments' = comments
               /\ ratings' = ratings
      ]_vars

\* C8 witness: the owner's delete went through while another user's
\* request on a comment that still exists was answered 403.
C8_Witness ==
    \E s1, s2 \in Slots :
        /\ resp[s1].status = 403
        /\ resp[s1].req.h \in {"deleteComment", "updateComment"}
        /\ resp[s1].req.doc \in comments
        /\ resp[s1].req.doc.userId /= resp[s1].req.user.userId
        /\ resp[s2].status = 200
        /\ resp[s2].req.h = "deleteRating"
        /\ resp[s2].req.doc \notin ratings
        /\ resp[s2].req.doc.userId = resp[s2].req.user.userId

(***************************************************************************)
(* Properties of the protected routes.                                     *)
(***************************************************************************)
ProtectedOps ==
    {"getProfile", "updateProfile", "deleteProfile", "changePassword", "session",
     "createComment", "getCommentsByMovie", "getCommentsByUser", "deleteComment",
     "updateComment", "createOrUpdateRating", "getAverageRatingByMovie",
     "getRatingsByUser", "deleteRating", "listMovies", "getMovie", "createMovie",
     "deleteMovie"}

\* the request carries a token signed with the server's secret whose exp
\* (in seconds) lies after the instant t (in milliseconds)
SessionValid(token, t) ==
    /\ token /= NoToken
    /\ token.key = "JWT_SECRET"
    /\ t < token.exp * 1000

\* slot s takes a request in this step, and the request it takes
Starts(s) == pc[s] = "idle" /\ (pc'[s] /= "idle" \/ resp'[s] /= resp[s])
Started(s) == IF pc'[s] = "idle" THEN resp'[s].req ELSE req'[s]

C10_UniqueEmails ==
    \A i, j \in UserIds :
        (users[i] /= NoUser /\ users[j] /= NoUser /\ users[i].email = users[j].email)
        => i = j

\* C10 witness: of two concurrent registers with one email the first was
\* answered 201 and the second failed in save(), and the registered email
\* is held by exactly one of three users.
C10_Witness ==
    /\ \E s1, s2 \in Slots :
          /\ resp[s1].req.h = "signup" /\ resp[s1].status = 201
          /\ resp[s2].req.h = "signup" /\ resp[s2].status = 500
          /\ resp[s1].req.email = resp[s2].req.email
          /\ Cardinality(UserIdsByEmail(users, resp[s1].req.email)) = 1
    /\ \A id \in UserIds : users[id] /= NoUser

(***************************************************************************)
(* Properties of the password reset flow.                                  *)
(***************************************************************************)
ResetStarts(s) == Starts(s) /\ Started(s).h = "resetPassword"

\* the users on whom `token` is stored; of those, the ones whose expiry
\* lies after t
Holders(token) ==
    { u \in UserIds : users[u] /= NoUser /\ users[u].resetPasswordToken = token }
LiveHolders(token, t) ==
    { u \in Holders(token) : users[u].resetPasswordExpires > t }

\* C11: with requests one after the other, a resetPassword with a token
\* that is stored and not older than an hour goes through, answers 200,
\* stores the hash of the new password and consumes the token: afterwards
\* no user holds it; a resetPassword with a token no user holds answers
\* 400 and changes no user; and a token once produced is never stored
\* again, so every use after the first fails.
C11_ResetOnce ==
    [][/\ \A s \in Slots :
            (ResetStarts(s) /\ LiveHolders(Started(s).token, now) /= {})
            => /\ pc'[s] = "reset_found"
               /\ req'[s].doc \in LiveHolders(req'[s].token, now)
       /\ \A s \in Slots :
            Runs(s, "reset_found")
            => /\ req[s].doc \in Holders(req[s].token)
               /\ resp'[s].status = 200
               /\ BcryptCompare(req[s].password, users'[req[s].doc].password)
               /\ \A u \in UserIds :
                    users'[u] /= NoUser => users'[u].resetPasswordToken /= req[s].token
       /\ \A s \in Slots :
            (ResetStarts(s) /\ Holders(Started(s).token) = {})
            => /\ pc'[s] = "idle"
               /\ resp'[s].status = 400
               /\ users' = users
       /\ \A u \in UserIds :
            (/\ users[u] /= NoUser /\ users'[u] /= NoUser
             /\ users'[u].resetPasswordToken /= users[u].resetPasswordToken
             /\ users'[u].resetPasswordToken /= Null)
            => users'[u].resetPasswordToken \notin issued
      ]_vars

\* C11 witness: t1, the only token ever produced, was mailed, a reset with
\* it replaced the password, and its second use within the hour got 400.
C11_Witness ==
    \E s1, s2 \in Slots :
        /\ issued = {"t1"}
        /\ resp[s1].req.h = "forgotPassword" /\ resp[s1].status = 200
        /\ resp[s1].req.resetToken = "t1"
        /\ resp[s2].req.h = "resetPassword" /\ resp[s2].status = 400
        /\ resp[s2].req.token = "t1"
        /\ now < ResetTtlMs
        /\ BcryptCompare("Other2!!", users[resp[s1].req.user.id].password)
        /\ users[resp[s1].req.user.id].resetPasswordToken = Null

\* C12: resetPassword gets past its lookup only with a token that is then
\* stored on a user with an expiry in the future; with any other token it
\* answers 400 and no user changes.  A password changes only in the save of
\* a request that got past the lookup for that user, and a stored token
\* expires one hour after it was stored.
C12_ResetNeedsLiveToken ==
    [][/\ \A s \in Slots :
            (ResetStarts(s) /\ LiveHolders(Started(s).token, now) = {})
            => /\ pc'[s] = "idle"
               /\ resp'[s].status = 400
               /\ users' = users
       /\ \A s \in Slots :
            (ResetStarts(s) /\ pc'[s] /= "idle")
            => req'[s].doc \in LiveHolders(req'[s].token, now)
       /\ \A u \in UserIds :
            (/\ users[u] /= NoUser /\ users'[u] /= NoUser
             /\ users'[u].password /= users[u].password)
            => \E s \in Slots :
                 /\ Runs(s, "reset_found")
                 /\ req[s].h = "resetPassword"
                 /\ req[s].doc = u
       /\ \A u \in UserIds :
            (/\ users[u] /= NoUser /\ users'[u] /= NoUser
             /\ users'[u].resetPasswordToken /= users[u].resetPasswordToken
             /\ users'[u].resetPasswordToken /= Null)
            => users'[u].resetPasswordExpires = now + ResetTtlMs
      ]_vars

\* C12 witness: a reset with a token that is still stored but an hour old
\* got 400, and the holder keeps the old password and the token.
C12_Witness ==
    \E s \in Slots, u \in UserIds :
        /\ resp[s].req.h = "resetPassword" /\ resp[s].status = 400
        /\ u \in Holders(resp[s].req.token)
        /\ users[u].resetPasswordExpires <= now
        /\ BcryptCompare("Secret1!", users[u].password)

\* each user has the reset token and its expiry both set or both cleared
ResetPair(u) ==
    users[u] /= NoUser
    => (users[u].resetPasswordToken = Null <=> users[u].resetPasswordExpires = NoExpiry)

\* C13: in every state every user has the reset token and its expiry both
\* set or both cleared; the save of forgotPassword sets both and the save
\* of resetPassword clears both.
C13_TokenAndExpiryPaired ==
    /\ [](\A u \in UserIds : ResetPair(u))
    /\ [][/\ \A s \in Slots :
              (Runs(s, "forgot_found") /\ pc'[s] = "forgot_saved")
              => /\ users'[req[s].user.id].resetPasswordToken = req'[s].resetToken
                 /\ users'[req[s].user.id].resetPasswordExpires /= NoExpiry
         /\ \A s \in Slots :
              (Runs(s, "reset_found") /\ resp'[s].status = 200)
              => /\ users'[req[s].doc].resetPasswordToken = Null
                 /\ users'[req[s].doc].resetPasswordExpires = NoExpiry
        ]_vars

\* C13 witness: a reset went through and left both fields of its user
\* cleared while a later forgotPassword is about to set them again.
C13_Witness ==
    \E s1, s2 \in Slots :
        /\ resp[s1].req.h = "resetPassword" /\ resp[s1].status = 200
        /\ users[resp[s1].req.doc].resetPasswordToken = Null
        /\ users[resp[s1].req.doc].resetPasswordExpires = NoExpiry
        /\ pc[s2] = "forgot_found"
        /\ req[s2].user /= NoUser

(***************************************************************************)
(* Properties of logout.                                                   *)
(***************************************************************************)
\* C14: logout answers 200 and changes nothing on the server; login stamps
\* its token to expire two hours later; and a token of login presented
\* after logout is accepted by the session check and by the middleware at
\* every instant before that expiry and answered 401 from then on.
C14_LogoutKeepsTokenValid ==
    [][/\ \A s \in Slots :
            (Starts(s) /\ Started(s).h = "logout")
            => /\ resp'[s].status = 200
               /\ UNCHANGED <<users, loginAttempts, issued, ratings, comments, movies, nextId>>
       /\ \A s \in Slots :
            (Runs(s, "login_compare") /\ resp'[s].status = 200)
            => resp'[s].cookie.exp * 1000 = now + 2 * 60 * 60 * 1000
       /\ \A s \in Slots :
            (/\ Starts(s)
             /\ Started(s).h \in {"session", "getProfile"}
             /\ Started(s).token \in issued
             /\ LoggedOut(Client) /\ resp[Client].req.token = Started(s).token)
            => resp'[s].status = IF now < Started(s).token.exp * 1000 THEN 200 ELSE 401
      ]_vars

\* C14 witness: the browser logged out with a token that is half an hour
\* from expiry, and the session check accepted that token afterwards.
C14_Witness ==
    /\ LoggedOut(Client)
    /\ resp[Client].req.token \in issued
    /\ resp[Holder].req.h = "session"
    /\ resp[Holder].req.token = resp[Client].req.token
    /\ resp[Holder].status = 200
    /\ resp[Holder].body.loggedIn
    /\ now = resp[Client].req.token.exp * 1000 - ResetStep

(***************************************************************************)
(* Properties of the delete handlers.                                      *)
(***************************************************************************)
DeleteOps == {"deleteComment", "deleteRating", "deleteMovie"}

\* the collection a delete handler works on
StoreOf(h) ==
    CASE h = "deleteComment" -> comments
      [] h = "deleteRating" -> ratings
      [] h = "deleteMovie" -> movies

\* C15: a movie leaves the store only in a step of a deleteMovie request
\* whose session identity is the movie's owning user.
C15_OnlyOwnerDeletesMovie ==
    [][\A m \in movies :
          m \notin movies'
          => \E s \in Slots :
               /\ Starts(s)
               /\ Started(s).h = "deleteMovie"
               /\ Started(s).id = m.id
               /\ Started(s).token.userId = m.userId
      ]_vars

\* C16: an authenticated delete request for a comment, a rating or a movie
\* whose id no document of that collection has is answered 404, at once or
\* in its next step, and no store changes.
C16_DeleteMissingIs404 ==
    [][/\ \A s \in Slots :
            (/\ Starts(s)
             /\ Started(s).h \in DeleteOps
             /\ SessionValid(Started(s).token, now)
             /\ \A d \in StoreOf(Started(s).h) : d.id /= Started(s).id)
            => /\ stores' = stores
               /\ \/ pc'[s] = "idle" /\ resp'[s].status = 404
                  \/ pc'[s] /= "idle" /\ req'[s].doc = NoDoc
       /\ \A s \in Slots :
            (/\ pc[s] \in {"deleteComment", "rating_delete"}
             /\ pc'[s] = "idle"
             /\ req[s].doc = NoDoc)
            => resp'[s].status = 404 /\ stores' = stores
      ]_vars

(***************************************************************************)
(* Properties of the profile handlers.                                     *)
(***************************************************************************)
\* C17: deleteProfile without a password answers 400; with a password that
\* does not match the secret of the caller's record it answers 401; in both
\* cases no user changes.  With the matching password it answers 200,
\* clears the cookie and removes the caller's record and no other.  A
\* record is removed only this way.
C17_DeleteProfileNeedsPassword ==
    [][/\ \A s \in Slots :
            (/\ Starts(s)
             /\ Started(s).h = "deleteProfile"
             /\ SessionValid(Started(s).token, now)
             /\ Started(s).password = "")
            => /\ pc'[s] = "idle"
               /\ resp'[s].status = 400
               /\ users' = users
       /\ \A s \in Slots :
            (Runs(s, "deleteProfile") /\ req[s].doc /= NoUser)
            => IF BcryptCompare(req[s].password, req[s].doc.password)
               THEN /\ resp'[s].status = 200
                    /\ resp'[s].cookie = ClearedCookie
                    /\ users' = [users EXCEPT ![req[s].token.userId] = NoUser]
               ELSE /\ resp'[s].status = 401
                    /\ resp'[s].cookie = NoToken
                    /\ users' = users
       /\ \A u \in UserIds :
            (users[u] /= NoUser /\ users'[u] = NoUser)
            => \E s \in Slots :
                 /\ Runs(s, "deleteProfile")
                 /\ req[s].token.userId = u
                 /\ BcryptCompare(req[s].password, users[u].password)
      ]_vars

\* C17 witness: the second user sent the first user's password and got
\* 401, keeping the record; the first user sent it and got 200, a cleared
\* cookie and the record removed.
C17_Witness ==
    \E s1, s2 \in Slots :
        /\ resp[s1].req.h = "deleteProfile" /\ resp[s1].status = 401
        /\ resp[s1].req.token = TokenU2 /\ resp[s1].req.password = "Secret1!"
        /\ users["u2"] /= NoUser
        /\ resp[s2].req.h = "deleteProfile" /\ resp[s2].status = 200
        /\ resp[s2].req.token = TokenU1 /\ resp[s2].req.password = "Secret1!"
        /\ resp[s2].cookie = ClearedCookie
        /\ users["u1"] = NoUser

ProfileOps == {"getProfile", "updateProfile", "deleteProfile"}

\* C18: a step of getProfile, updateProfile or deleteProfile leaves every
\* user record but the one whose id is the subject of the request's token
\* as it was; the document deleteProfile reads and the user that
\* getProfile and updateProfile return are that record.
C18_ProfileOnlyOwnRecord ==
    [][/\ \A s \in Slots :
            (Starts(s) /\ Started(s).h \in ProfileOps)
            => /\ \A u \in UserIds \ {Started(s).token.userId} : users'[u] = users[u]
               /\ pc'[s] /= "idle" => req'[s].doc = users[Started(s).token.userId]
               /\ (pc'[s] = "idle" /\ resp'[s].status = 200)
                  => resp'[s].body = PublicUser(Started(s).token.userId,
                                                users'[Started(s).token.userId])
       /\ \A s \in Slots :
            Runs(s, "deleteProfile")
            => \A u \in UserIds \ {req[s].token.userId} : users'[u] = users[u]
      ]_vars

\* C18 witness: the first user changed the profile and deleted it, the
\* second user read theirs, and the second user's record is as it was
\* registered.
C18_Witness ==
    \E s1, s2 \in Slots :
        /\ resp[s1].req.h = "deleteProfile" /\ resp[s1].status = 200
        /\ resp[s1].req.token = TokenU1
        /\ resp[s1].req.doc.email = "c@x"
        /\ users["u1"] = NoUser
        /\ resp[s2].req.h = "getProfile" /\ resp[s2].status = 200
        /\ resp[s2].req.token = TokenU2
        /\ resp[s2].body = PublicUser("u2", TwoUsers["u2"])
        /\ users["u2"] = TwoUsers["u2"]

(***************************************************************************)
(* Properties of signup.                                                   *)
(***************************************************************************)
\* the password policy: at least 8 characters, a lowercase and an
\* uppercase letter and a character that is neither letter nor digit
Policy(password) ==
    /\ PasswordShape(password).len >= 8
    /\ PasswordShape(password).lower
    /\ PasswordShape(password).upper
    /\ PasswordShape(password).special

AllFields(q) ==
    q.firstName /= "" /\ q.lastName /= "" /\ q.age /= 0 /\ q.email /= "" /\ q.password /= ""

\* C19: a user record appears only in the save of a signup whose five
\* fields are present, whose password meets the policy and whose email was
\* held by no user at its lookup and is held by none now, answered 201; a
\* signup with a missing field or a password outside the policy is
\* answered 400, one whose email a user holds at the lookup 409, and
\* neither changes the user store.
C19_SignupValidates ==
    [][/\ \A u \in UserIds :
            (users[u] = NoUser /\ users'[u] /= NoUser)
            => \E s \in Slots :
                 /\ Runs(s, "signup_found")
                 /\ AllFields(req[s])
                 /\ Policy(req[s].password)
                 /\ req[s].existingUser = NoUser
                 /\ UserIdsByEmail(users, req[s].email) = {}
                 /\ users'[u].email = req[s].email
                 /\ resp'[s].status = 201
       /\ \A s \in Slots :
            (/\ Starts(s)
             /\ Started(s).h = "signup"
             /\ ~(AllFields(Started(s)) /\ Policy(Started(s).password)))
            => /\ pc'[s] = "idle"
               /\ resp'[s].status = 400
               /\ users' = users
       /\ \A s \in Slots :
            (/\ Starts(s)
             /\ Started(s).h = "signup"
             /\ AllFields(Started(s)) /\ Policy(Started(s).password))
            => /\ pc'[s] = "signup_found"
               /\ users' = users
               /\ req'[s].existingUser = NoUser <=> UserIdsByEmail(users, req'[s].email) = {}
       /\ \A s \in Slots :
            (Runs(s, "signup_found") /\ req[s].existingUser /= NoUser)
            => /\ resp'[s].status = 409
               /\ users' = users
      ]_vars

\* C19 witness: a signup with a password of eight characters without a
\* special one got 400 and one for the registered email got 409, while a
\* third one had registered a second user.
C19_Witness ==
    \E s1, s2 \in Slots :
        /\ resp[s1].req.h = "signup" /\ resp[s1].status = 400
        /\ resp[s1].req.password = "Secret12" /\ resp[s1].req.firstName /= ""
        /\ resp[s2].req.h = "signup" /\ resp[s2].status = 409
        /\ resp[s2].req.email = "a@x"
        /\ users["u2"] /= NoUser /\ users["u2"].email = "b@x"
        /\ users["u3"] = NoUser

\* C20: signup answers 201 with the new id alone and no cookie, and no step
\* of it signs a token; a token is signed only by a login that answers 200,
\* for the user found by the email and password of that login; and a
\* request is let through as a user only with a token signed so.
C20_SignupIssuesNoToken ==
    [][/\ \A s \in Slots :
            Runs(s, "signup_found")
            => /\ issued' = issued
               /\ resp'[s].cookie = NoToken
               /\ resp'[s].status = 201
                  => \E u \in UserIds :
                       /\ users[u] = NoUser /\ users'[u] /= NoUser
                       /\ resp'[s].body = [userId |-> u]
       /\ \A s \in Slots :
            (Starts(s) /\ Started(s).h = "signup") => issued' = issued
       /\ \A t \in issued' \ issued :
            \E s \in Slots :
               /\ Runs(s, "login_compare")
               /\ resp'[s].status = 200 /\ resp'[s].cookie = t
               /\ users[t.userId] /= NoUser
               /\ users[t.userId].email = req[s].email
               /\ BcryptCompare(req[s].password, users[t.userId].password)
       /\ \A s \in Slots :
            (/\ Starts(s)
             /\ Started(s).h = "getProfile"
             /\ resp'[s].status = 200)
            => Started(s).token \in issued
      ]_vars

\* C20 witness: the second user was registered and answered 201 without a
\* cookie, no token has been signed for that user, and the profile request
\* made with a forged token for the new id was answered 401.
C20_Witness ==
    \E s1, s2 \in Slots :
        /\ resp[s1].req.h = "signup" /\ resp[s1].status = 201
        /\ resp[s1].body = [userId |-> "u2"]
        /\ resp[s1].cookie = NoToken
        /\ users["u2"] /= NoUser
        /\ \A t \in issued : t.userId /= "u2"
        /\ resp[s2].req.h = "getProfile" /\ resp[s2].status = 401
        /\ resp[s2].req.token = Forged("u2", "b@x")

(***************************************************************************)
(* Properties of the stored secret.                                        *)
(***************************************************************************)
\* the signup answered 201 whose response slot s still holds
Registered(s) == resp[s].req.h = "signup" /\ resp[s].status = 201

\* C21: the record a signup answered 201 has written holds a secret that
\* differs from the raw password and that the raw password verifies
\* against; a login started after that answer with the same email and
\* password finds the user, passes the lock check unless the email is
\* locked, and its comparison succeeds: it is answered 200 with a token
\* of that user.
C21_StoredSecretVerifies ==
    [][/\ \A s \in Slots :
            (Runs(s, "signup_found") /\ resp'[s].status = 201)
            => LET doc == users'[resp'[s].body.userId]
               IN  /\ doc.email = req[s].email
                   /\ doc.password /= req[s].password
                   /\ BcryptCompare(req[s].password, doc.password)
       /\ \A s, r \in Slots :
            (/\ Registered(r)
             /\ Starts(s)
             /\ Started(s).h = "login"
             /\ Started(s).email = resp[r].req.email
             /\ Started(s).password = resp[r].req.password)
            => /\ pc'[s] = "login_found"
               /\ req'[s].user /= NoUser
               /\ req'[s].user.id = resp[r].body.userId
               /\ BcryptCompare(req'[s].password, req'[s].user.password)
       /\ \A s \in Slots :
            (/\ Runs(s, "login_found")
             /\ req[s].user /= NoUser
             /\ \/ loginAttempts[req[s].email] = NoRec
                \/ loginAttempts[req[s].email].lockedUntil = NoLock
                \/ loginAttempts[req[s].email].lockedUntil <= now)
            => pc'[s] = "login_compare"
       /\ \A s \in Slots :
            (/\ Runs(s, "login_compare")
             /\ BcryptCompare(req[s].password, req[s].user.password))
            => /\ resp'[s].status = 200
               /\ resp'[s].cookie /= NoToken
               /\ resp'[s].cookie.userId = req[s].user.id
      ]_vars

\* C21 witness: the second user registered with a password, the record
\* holds a different string, and a login with the same email and password
\* was answered 200 with a token of that user, after failed attempts for
\* that email.
C21_Witness ==
    \E s1, s2 \in Slots :
        /\ Registered(s1)
        /\ resp[s1].body = [userId |-> "u2"]
        /\ users["u2"].password /= resp[s1].req.password
        /\ resp[s2].req.h = "login" /\ resp[s2].status = 200
        /\ resp[s2].req.email = resp[s1].req.email
        /\ resp[s2].req.password = resp[s1].req.password
        /\ resp[s2].cookie /= NoToken
        /\ resp[s2].cookie.userId = "u2"

(***************************************************************************)
(* Properties of the average rating.                                       *)
(***************************************************************************)
RatingsOfMovie(moviePexelsId) == { r \in ratings : r.moviePexelsId = moviePexelsId }

\* the number n has the value of num / den
IsNumber(n, num, den) == n.num * den = num * n.den

\* C22: a request for the average rating of a movie whose session is valid
\* is answered 200 with average 0, count 0 and own rating 0 when no rating
\* of the movie is stored; otherwise the aggregation yields the count of
\* the ratings of that movie and the sum of their values divided by that
\* count, and the answer is 200 with that average and count and with the
\* value of the caller's rating of the movie, or 0 when the caller has
\* none.
C22_AverageIsMean ==
    [][/\ \A s \in Slots :
            (/\ Starts(s)
             /\ Started(s).h = "getAverageRatingByMovie"
             /\ SessionValid(Started(s).token, now))
            => LET matched == RatingsOfMovie(Started(s).moviePexelsId)
               IN  IF matched = {}
                   THEN /\ pc'[s] = "idle"
                        /\ resp'[s].status = 200
                        /\ IsNumber(resp'[s].body.averageRating, 0, 1)
                        /\ resp'[s].body.totalRatings = 0
                        /\ IsNumber(resp'[s].body.userRating, 0, 1)
                   ELSE /\ pc'[s] = "rating_average"
                        /\ req'[s].totalRatings = Cardinality(matched)
                        /\ IsNumber(req'[s].averageRating,
                                    SumValues(matched), 2 * Cardinality(matched))
       /\ \A s \in Slots :
            Runs(s, "rating_average")
            => LET own == { r \in RatingsOfMovie(req[s].moviePexelsId) :
                               r.userId = req[s].token.userId }
               IN  /\ resp'[s].status = 200
                   /\ resp'[s].body.averageRating = req[s].averageRating
                   /\ resp'[s].body.totalRatings = req[s].totalRatings
                   /\ IF own = {}
                      THEN IsNumber(resp'[s].body.userRating, 0, 1)
                      ELSE \E r \in own : IsNumber(resp'[s].body.userRating, r.value, 2)
       /\ \A s \in Slots :
            (\/ Runs(s, "rating_average")
             \/ Starts(s) /\ Started(s).h = "getAverageRatingByMovie")
            => ratings' = ratings
      ]_vars

\* C22 witness: the movie has the ratings 5, 3 and 4, and the user who gave
\* the 5 was answered average 4, count 3 and own rating 5.
C22_Witness ==
    \E s \in Slots :
        /\ { r.value : r \in RatingsOfMovie("m1") } = {10, 6, 8}
        /\ Cardinality(RatingsOfMovie("m1")) = 3
        /\ \E r \in RatingsOfMovie("m1") : r.userId = "u1" /\ r.value = 10
        /\ resp[s].req.h = "getAverageRatingByMovie"
        /\ resp[s].req.moviePexelsId = "m1"
        /\ resp[s].req.token = TokenU1
        /\ resp[s].status = 200
        /\ IsNumber(resp[s].body.averageRating, 4, 1)
        /\ resp[s].body.totalRatings = 3
        /\ IsNumber(resp[s].body.userRating, 5, 1)

(***************************************************************************)
(* Properties of the rating value.                                         *)
(***************************************************************************)
\* the values 1, 2, 3, 4 and 5
IntegerStars == { 2 * v : v \in MinRating .. MaxRating }

\* C23: a createOrUpdateRating request with a valid session whose value is
\* not one of the integers 1 to 5 is answered 400 and leaves the ratings
\* unchanged, and every stored rating holds one of the integers 1 to 5.
C23_OnlyIntegerStars ==
    /\ [][\A s \in Slots :
            (/\ Starts(s)
             /\ Started(s).h = "createOrUpdateRating"
             /\ SessionValid(Started(s).token, now)
             /\ Started(s).value \notin IntegerStars)
            => /\ pc'[s] = "idle"
               /\ resp'[s].status = 400
               /\ ratings' = ratings]_vars
    /\ [](\A r \in ratings : r.value \in IntegerStars)

(***************************************************************************)
(* Properties of the failure count under concurrent logins.                *)
(***************************************************************************)
\* the slots whose password comparison resolves in this step for email e,
\* with the given outcome
Compared(e, outcome) ==
    { s \in Slots : /\ Runs(s, "login_compare")
                    /\ req[s].email = e
                    /\ BcryptCompare(req[s].password, req[s].user.password) = outcome }

\* C24: in every step, the failure count of an email grows by the number
\* of logins for it whose password comparison fails in that step, becomes
\* 0 when a comparison succeeds, and otherwise keeps its value; a new
\* record starts at 0.  So between two successful logins the count is the
\* number of failed comparisons, whatever the interleaving.
C24_NoLostFailure ==
    [][\A e \in Emails :
          IF loginAttempts[e] = NoRec
          THEN /\ Compared(e, FALSE) = {}
               /\ loginAttempts'[e] = NoRec \/ loginAttempts'[e].count = 0
          ELSE /\ loginAttempts'[e] /= NoRec
               /\ loginAttempts'[e].count =
                     IF Compared(e, TRUE) /= {} THEN 0
                     ELSE loginAttempts[e].count + Cardinality(Compared(e, FALSE))
      ]_vars

\* C24 witness: two logins for the email passed the lock check at four
\* failures, both comparisons failed, and the count is six.
C24_Witness ==
    /\ loginAttempts["a@x"] /= NoRec
    /\ loginAttempts["a@x"].count = MaxFailures + 1
    /\ \A s \in Slots :
          /\ resp[s].req.h = "login" /\ resp[s].req.email = "a@x"
          /\ resp[s].status = 401

\* C29: in every state, an email whose lockout expiry lies in the future
\* has a failure count of at least five.
C29_LockedHasFiveFailures ==
    \A e \in Emails :
        (/\ loginAttempts[e] /= NoRec
         /\ loginAttempts[e].lockedUntil /= NoLock
         /\ loginAttempts[e].lockedUntil > now)
        => loginAttempts[e].count >= MaxFailures

(***************************************************************************)
(* Properties of the comment lists.                                        *)
(***************************************************************************)
Elements(seq) == { seq[i] : i \in 1 .. Len(seq) }

\* the sequence lists the documents of the set, each once, newest first
ListsNewestFirst(seq, docs) ==
    /\ Elements(seq) = docs
    /\ Len(seq) = Cardinality(docs)
    /\ \A i, j \in 1 .. Len(seq) : i < j => seq[i].createdAt >= seq[j].createdAt

\* C25: a request for the comments of a movie whose session is valid is
\* answered with two lists: userComments lists the comments of the movie
\* owned by the caller and otherComments those owned by anyone else, each
\* comment once and each list newest first.
C25_CommentsPartitioned ==
    [][\A s \in Slots :
          (/\ Starts(s)
           /\ Started(s).h = "getCommentsByMovie"
           /\ SessionValid(Started(s).token, now))
          => LET ofMovie == { c \in comments : c.moviePexelsId = Started(s).moviePexelsId }
                 mine == { c \in ofMovie : c.userId = Started(s).token.userId }
             IN  /\ resp'[s].status = 200
                 /\ ListsNewestFirst(resp'[s].body.userComments, mine)
                 /\ ListsNewestFirst(resp'[s].body.otherComments, ofMovie \ mine)
      ]_vars

(***************************************************************************)
(* Properties of createMovie.                                              *)
(***************************************************************************)
\* C26: a createMovie request with a valid session and all four fields is
\* answered 201 and adds exactly one movie, owned by the user of the
\* session; a createMovie request is answered 401 only when its session
\* is not valid.
C26_CreateMovieWithSession ==
    [][\A s \in Slots :
          (Starts(s) /\ Started(s).h = "createMovie")
          => /\ (/\ SessionValid(Started(s).token, now)
                 /\ Started(s).title /= "" /\ Started(s).pexelUser /= ""
                 /\ Started(s).pexelsId /= "" /\ Started(s).miniatureUrl /= "")
                => /\ resp'[s].status = 201
                   /\ Cardinality(movies' \ movies) = 1
                   /\ movies \subseteq movies'
                   /\ \A m \in movies' \ movies : m.userId = Started(s).token.userId
             /\ resp'[s].status = 401 => ~SessionValid(Started(s).token, now)
      ]_vars

(***************************************************************************)
(* Properties of the session endpoint.                                     *)
(***************************************************************************)
\* C27: a session request with a valid, unexpired token is answered 200
\* with loggedIn true and the decoded user; every other session request
\* (no token, bad signature, expired token) is answered 401 with loggedIn
\* false.
C27_SessionAnswers ==
    [][\A s \in Slots :
          (Starts(s) /\ Started(s).h = "session")
          => IF SessionValid(Started(s).token, now)
             THEN /\ resp'[s].status = 200
                  /\ resp'[s].body = [loggedIn |-> TRUE,
                                      user |-> [userId |-> Started(s).token.userId,
                                                email |-> Started(s).token.email]]
             ELSE /\ resp'[s].status = 401
                  /\ "loggedIn" \in DOMAIN resp'[s].body
                  /\ resp'[s].body.loggedIn = FALSE
      ]_vars

(***************************************************************************)
(* Properties of forgotPassword.                                           *)
(***************************************************************************)
\* C28: forgotPassword looks the email up without changing anything; for
\* an email of no user it answers 404 straight away, without reaching the
\* send of the mail and without changing a user or drawing a token; for
\* the email of a user it stores on that user a token never produced
\* before and the expiry of one hour after that instant, changes nothing
\* else on that user and nothing on any other, and goes on to send the
\* mail.
C28_ForgotPasswordStoresToken ==
    [][/\ \A s \in Slots :
            (Starts(s) /\ Started(s).h = "forgotPassword")
            => /\ pc'[s] = "forgot_found"
               /\ users' = users
               /\ req'[s].user = NoUser <=> UserIdsByEmail(users, req'[s].email) = {}
               /\ req'[s].user /= NoUser => users[req'[s].user.id].email = req'[s].email
       /\ \A s \in Slots :
            (Runs(s, "forgot_found") /\ req[s].user = NoUser)
            => /\ pc'[s] = "idle"
               /\ resp'[s].status = 404
               /\ users' = users
               /\ issued' = issued
       /\ \A s \in Slots :
            (Runs(s, "forgot_found") /\ req[s].user /= NoUser)
            => LET id == req[s].user.id
               IN  /\ pc'[s] = "forgot_saved"
                   /\ req'[s].resetToken \notin issued
                   /\ \A u \in UserIds :
                         users[u] /= NoUser => users[u].resetPasswordToken /= req'[s].resetToken
                   /\ users'[id] =
                         [users[id] EXCEPT !.resetPasswordToken = req'[s].resetToken,
                                           !.resetPasswordExpires = now + 60 * 60 * 1000]
                   /\ \A u \in UserIds \ {id} : users'[u] = users[u]
       /\ \A s \in Slots : Runs(s, "forgot_saved") => users' = users
      ]_vars

\* C28 witness: a request for the email of no user was answered 404, and a
\* request for the first user's email, made half an hour after the start,
\* has stored its token with the expiry of an hour later on that user,
\* the second token this user got, while the second user is as before.
C28_Witness ==
    \E s1, s2 \in Slots :
        /\ resp[s1].req.h = "forgotPassword" /\ resp[s1].status = 404
        /\ resp[s1].req.email = "c@x"
        /\ pc[s2] = "forgot_saved" /\ req[s2].email = "a@x"
        /\ now = ResetStep
        /\ users["u1"].resetPasswordToken = req[s2].resetToken
        /\ users["u1"].resetPasswordExpires = ResetStep + ResetTtlMs
        /\ Cardinality(issued \cap ResetTokens) = 2
        /\ users["u2"] = TwoUsers["u2"]

(***************************************************************************)
(* Properties of the life of a login-attempt record.                       *)
(***************************************************************************)
\* C30: the record of an email is added to loginAttempts only in a step
\* where the password comparison of a login for that email fails; logins
\* that succeed and logins for an email of no user add none.
C30_RecordOnlyOnFailure ==
    [][\A e \in Emails :
          (loginAttempts[e] = NoRec /\ loginAttempts'[e] /= NoRec)
          => \E s \in Slots :
               /\ Runs(s, "login_compare")
               /\ req[s].email = e
               /\ ~BcryptCompare(req[s].password, req[s].user.password)
      ]_vars

(***************************************************************************)
(* Properties of the rating upsert.                                        *)
(***************************************************************************)
\* C31: when createOrUpdateRating requests run one after the other, a
\* request that passes validation is answered 201 exactly when the pair of
\* its user and movie had no rating, and then one document with a new id
\* is added; it is answered 200 exactly when the pair had one, and then
\* that document keeps its id, owner and movie and takes the submitted
\* value, and no other document changes.
C31_CreatedOrUpdated ==
    [][\A s \in Slots :
          Runs(s, "rating_found")
          => LET before == RatingsOf(ratings, req[s].user.userId, req[s].moviePexelsId)
             IN  /\ resp'[s].status = 201 <=> before = {}
                 /\ resp'[s].status = 200 <=> before /= {}
                 /\ before = {}
                    => \E r \in ratings' \ ratings :
                         /\ ratings' = ratings \cup {r}
                         /\ \A o \in ratings : o.id /= r.id
                         /\ r.userId = req[s].user.userId
                         /\ r.moviePexelsId = req[s].moviePexelsId
                         /\ r.value = req[s].value
                 /\ before /= {}
                    => \E r \in before :
                         ratings' = (ratings \ {r}) \cup {[r EXCEPT !.value = req[s].value]}
      ]_vars

\* C31 witness: the second user's first call was answered 201, and the
\* first user's later call with another value was answered 200 and left
\* the value in the document the call had found.
C31_Witness ==
    \E s1, s2 \in Slots :
        /\ resp[s1].req.h = "createOrUpdateRating" /\ resp[s1].status = 201
        /\ resp[s1].req.user.userId = "u2"
        /\ resp[s2].req.h = "createOrUpdateRating" /\ resp[s2].status = 200
        /\ resp[s2].req.user.userId = "u1"
        /\ resp[s2].req.existing.value /= resp[s2].req.value
        /\ \E r \in ratings :
              /\ r.id = resp[s2].req.existing.id
              /\ r.userId = "u1"
              /\ r.value = resp[s2].req.value
        /\ \E r \in ratings : r.userId = "u2"

(***************************************************************************)
(* Properties of the lockout under concurrent logins.                      *)
(***************************************************************************)
\* five failures are recorded for the email and its lockout has not expired
LockedOut(e) ==
    /\ loginAttempts[e] /= NoRec
    /\ loginAttempts[e].count >= MaxFailures
    /\ loginAttempts[e].lockedUntil /= NoLock
    /\ loginAttempts[e].lockedUntil > now

\* C32: once five failures are recorded for an email, no password
\* comparison of a login for that email comes to its result before the
\* lockout expiry, whatever the interleaving of the requests; so no sixth
\* wrong password is tried within a lockout window.
C32_NoCompareWhileLocked ==
    [][\A s \in Slots : Runs(s, "login_compare") => ~LockedOut(req[s].email)]_vars

(***************************************************************************)
(* Properties of concurrent and superseded resets.                         *)
(***************************************************************************)
\* C33: no two resetPassword requests that carried the same token have
\* both been answered 200.
C33_OneResetPerToken ==
    \A s1, s2 \in Slots :
        (/\ s1 /= s2
         /\ resp[s1].req.h = "resetPassword" /\ resp[s1].status = 200
         /\ resp[s2].req.h = "resetPassword" /\ resp[s2].status = 200)
        => resp[s1].req.token /= resp[s2].req.token

\* the users for whom a resetPassword with the token would go through now
Usable(us, token, t) ==
    { u \in UserIds : /\ us[u] /= NoUser
                      /\ us[u].resetPasswordToken = token
                      /\ us[u].resetPasswordExpires /= NoExpiry
                      /\ us[u].resetPasswordExpires > t }

\* C34: the save of forgotPassword stores a token never produced before
\* in place of the one its user held, which from that step on is usable
\* for no user; a token once produced and usable for no user never becomes
\* usable again; and a resetPassword request with a token usable for no
\* user is answered 400 and changes no user.
C34_LaterTokenSupersedes ==
    [][/\ \A s \in Slots :
            (Runs(s, "forgot_found") /\ pc'[s] = "forgot_saved")
            => LET id == req[s].user.id
                   old == users[id].resetPasswordToken
               IN  /\ req'[s].resetToken \notin issued
                   /\ users'[id].resetPasswordToken = req'[s].resetToken
                   /\ Usable(users', old, now) = {}
       /\ \A t \in issued \cap ResetTokens :
            Usable(users, t, now) = {} => Usable(users', t, now') = {}
       /\ \A s \in Slots :
            (/\ Starts(s)
             /\ Started(s).h = "resetPassword"
             /\ Usable(users, Started(s).token, now) = {})
            => /\ pc'[s] = "idle"
               /\ resp'[s].status = 400
               /\ users' = users
      ]_vars

\* C34 witness: two tokens were produced for the first user, who holds the
\* later one unexpired and still has the first password, and a
\* resetPassword with the earlier token was answered 400.
C34_Witness ==
    \E s \in Slots, old, new \in issued \cap ResetTokens :
        /\ old /= new
        /\ Cardinality(issued \cap ResetTokens) = 2
        /\ users["u1"].resetPasswordToken = new
        /\ users["u1"].resetPasswordExpires > now
        /\ users["u1"].password = TwoUsers["u1"].password
        /\ resp[s].req.h = "resetPassword" /\ resp[s].status = 400
        /\ resp[s].req.token = old

(***************************************************************************)
(* Properties of the references to users.                                  *)
(***************************************************************************)
\* C35: in every state the owner of every comment and of every rating is
\* an existing user.
C35_OwnersExist ==
    /\ \A c \in comments : users[c.userId] /= NoUser
    /\ \A r \in ratings : users[r.userId] /= NoUser

(***************************************************************************)
(* Properties of the stored passwords.                                     *)
(***************************************************************************)
\* the passwords whose hashes are tabulated
Hashable == {"Secret1!", "Other2!!", "weak", "Secret12"}

\* C36: in every state the password behind the secret of every user meets
\* the signup policy.
C36_StoredPasswordsMeetPolicy ==
    \A u \in UserIds :
        users[u] /= NoUser
        => \A p \in Hashable : BcryptCompare(p, users[u].password) => Policy(p)

\* the changePassword answered 200 whose response slot s still holds
Changed(s) == resp[s].req.h = "changePassword" /\ resp[s].status = 200

\* C39: the step of changePassword that follows the lookup changes the
\* caller's secret only when the submitted current password verifies
\* against it, and then the new password verifies against the new secret
\* and no other user changes; with a current password that does not
\* verify it answers 401 and changes no user.  A login for the caller's
\* email started after a change was answered 200 finds a secret against
\* which the new password verifies and the old one does not; a login that
\* passes the lock check is answered 200 when its password verifies and
\* 401 when it does not.
C39_ChangeNeedsCurrentPassword ==
    [][/\ \A s \in Slots :
            (Runs(s, "changePassword") /\ req[s].doc /= NoUser)
            => LET u == req[s].token.userId
               IN  IF BcryptCompare(req[s].currentPassword, users[u].password)
                   THEN /\ resp'[s].status = 200
                        /\ BcryptCompare(req[s].newPassword, users'[u].password)
                        /\ \A o \in UserIds \ {u} : users'[o] = users[o]
                   ELSE /\ resp'[s].status = 401
                        /\ users' = users
       /\ \A s, c \in Slots :
            (/\ Changed(c)
             /\ Starts(s)
             /\ Started(s).h = "login"
             /\ Started(s).email = resp[c].req.token.email)
            => /\ pc'[s] = "login_found"
               /\ req'[s].user /= NoUser
               /\ BcryptCompare(resp[c].req.newPassword, req'[s].user.password)
               /\ resp[c].req.currentPassword /= resp[c].req.newPassword
                  => ~BcryptCompare(resp[c].req.currentPassword, req'[s].user.password)
       /\ \A s \in Slots :
            (Runs(s, "login_found") /\ req[s].user /= NoUser /\ ~LockedOut(req[s].email))
            => pc'[s] = "login_compare"
       /\ \A s \in Slots :
            Runs(s, "login_compare")
            => resp'[s].status =
                  IF BcryptCompare(req[s].password, req[s].user.password) THEN 200 ELSE 401
      ]_vars

\* C39 witness: the first user changed the password, a change with a
\* current password that is no longer right was answered 401 before, and
\* after the change a login with the old password was answered 401;
\* the stored secret is that of the new password.
C39_Witness ==
    /\ Changed(Client)
    /\ resp[Client].req.currentPassword = "Secret1!"
    /\ resp[Client].req.newPassword = "Other2!!"
    /\ BcryptCompare("Other2!!", users["u1"].password)
    /\ ~BcryptCompare("Secret1!", users["u1"].password)
    /\ resp[Holder].req.h = "login" /\ resp[Holder].status = 401
    /\ resp[Holder].req.password = "Secret1!"
    /\ BcryptCompare("Other2!!", resp[Holder].req.user.password)

(***************************************************************************)
(* Properties of the isolation of the lockout.                             *)
(***************************************************************************)
\* the email of the login that slot s starts or continues in this step
LoginStepEmail(s) ==
    IF Starts(s) /\ Started(s).h = "login" THEN {Started(s).email}
    ELSE IF Runs(s, "login_found") \/ Runs(s, "login_compare") THEN {req[s].email}
    ELSE {}

\* C37: a step of a login for an email leaves the record of every other
\* email as it is, and what a login for an email is answered depends only
\* on the user and the record of that email: at the lock check 423 when
\* that record is locked and the comparison otherwise, and after the
\* comparison 200 or 401 as the password verifies or not, with only that
\* record counted up or reset.
C37_LockoutPerEmail ==
    [][\A s \in Slots : \A a \in LoginStepEmail(s) :
          /\ \A b \in Emails \ {a} : loginAttempts'[b] = loginAttempts[b]
          /\ Runs(s, "login_found") /\ req[s].user /= NoUser
             => IF /\ loginAttempts[a] /= NoRec
                   /\ loginAttempts[a].lockedUntil /= NoLock
                   /\ loginAttempts[a].lockedUntil > now
                THEN resp'[s].status = 423 /\ loginAttempts'[a] = loginAttempts[a]
                ELSE pc'[s] = "login_compare"
          /\ Runs(s, "login_compare")
             => IF BcryptCompare(req[s].password, req[s].user.password)
                THEN /\ resp'[s].status = 200
                     /\ loginAttempts'[a] = [loginAttempts[a] EXCEPT !.count = 0]
                ELSE /\ resp'[s].status = 401
                     /\ loginAttempts'[a].count = loginAttempts[a].count + 1
      ]_vars

\* C37 witness: the first email is locked after five failures, and a login
\* for the second email was answered 200 during that lockout and left the
\* record of that email at count 0.
C37_Witness ==
    /\ loginAttempts["a@x"] /= NoRec
    /\ loginAttempts["a@x"].count = MaxFailures
    /\ loginAttempts["a@x"].lockedUntil > now
    /\ resp[Client].req.h = "login" /\ resp[Client].status = 423
    /\ resp[Holder].req.h = "login" /\ resp[Holder].status = 200
    /\ resp[Holder].req.email = "b@x"
    /\ loginAttempts["b@x"] = [count |-> 0, lockedUntil |-> NoLock]
    /\ resp[Holder].cookie.exp > TokenTtlSec

(***************************************************************************)
(* Properties of the fields of a comment.                                  *)
(***************************************************************************)
\* C38: in every step every comment that stays keeps its owner, its movie
\* and its creation time; the save of updateComment changes nothing or
\* replaces the description of the comment it addressed by the submitted
\* one, and leaves every other comment as it is.
C38_UpdateChangesDescriptionOnly ==
    [][/\ \A c \in comments : \A d \in comments' :
            d.id = c.id
            => /\ d.userId = c.userId
               /\ d.moviePexelsId = c.moviePexelsId
               /\ d.createdAt = c.createdAt
       /\ \A s \in Slots :
            Runs(s, "updateComment")
            => \/ comments' = comments
               \/ \E c \in comments :
                     /\ c.id = req[s].id
                     /\ resp'[s].status = 200
                     /\ comments' = (comments \ {c}) \cup
                                        {[c EXCEPT !.description = req[s].description]}
      ]_vars

\* C38 witness: the first user's update of the own comment was answered
\* 200; the comment holds the new description with its other fields as
\* before, and the second user's comment is as before.
C38_Witness ==
    \E s \in Slots :
        /\ resp[s].req.h = "updateComment" /\ resp[s].status = 200
        /\ resp[s].req.id = 1
        /\ comments = {[CommentDoc(1, "u1", "good") EXCEPT !.description = "bad"],
                       CommentDoc(2, "u2", "good")}

====
